---- MODULE Spec2Model ----
(***************************************************************************)
(* A model of fossdb's ingestion and notification pipeline:                *)
(*   - the worker's PackageCoordinator (per-name semaphores, CouchDB rows) *)
(*   - the server's collectors writing to the native_db store              *)
(*   - the PackageVersion change listener                                  *)
(*   - the TimelineBroadcaster and the websocket connections               *)
(*   - the NotificationProcessor                                           *)
(*   - the AdaptiveRateLimitedClient                                       *)
(* Each component has its own specification; the variables of the other    *)
(* components stay at their initial values under it.                       *)
(***************************************************************************)
EXTENDS Integers, Sequences, FiniteSets, TLC

VARIABLES
    \* ---- fossdb-worker: PackageCoordinator and its CouchDB store
    package_locks,   \* DashMap<String, Arc<Semaphore>>: name -> semaphore id, 0 = no entry
    permits,         \* semaphore id -> available permits
    waiters,         \* semaphore id -> FIFO queue of tasks suspended in acquire()
    tasks,           \* task -> [pc, data, lock, pkg, i]: one spawned save_package call
    wPackages,       \* rows of the worker's packages database: [id, name]
    wVersions,       \* rows of the worker's versions database: [id, package_id, version]
    wCalls,          \* number of save_package calls started so far
    returned         \* history: name -> how the save_package calls for it returned
                     \* and whether a sweep kept its map entry

coordVars == <<package_locks, permits, waiters, tasks, wPackages, wVersions, wCalls, returned>>

VARIABLES
    \* ---- fossdb server: the native_db store
    packages,        \* Package rows: [id, name, updated_at]
    versions,        \* PackageVersion rows: [id, package_id, version]
    package_ids,     \* IdGenerator counter of the packages table
    version_ids,     \* IdGenerator counter of the versions table
    watching,        \* TRUE once spawn_package_version_listener registered its watch
    feed,            \* the watch channel: notifications not yet received by the listener,
                     \* each [kind, version, subs]
    \* ---- fossdb server: the collector tasks
    col,             \* collector -> [pc, cand, existing, seen, pkg, i, last, left, fresh]
    polls            \* number of candidates the collectors have started on

storeVars == <<packages, versions, package_ids, version_ids, watching, feed>>
collectVars == <<col, polls>>

VARIABLES
    \* ---- fossdb server: users, timeline and the PackageVersion listener
    subscriptions,   \* user -> set of PackageSubscription: [package_name, notifications_enabled]
    timeline,        \* TimelineEvent rows
    timeline_ids,    \* IdGenerator counter of the timeline table
    listener,        \* the listener task: [pc, version, package, users, todo, clean, failed]
    handled,         \* history: the notifications the listener handled to the end
    redelivered,     \* number of notifications the feed delivered a second time
    \* ---- fossdb server: TimelineBroadcaster and the WebSocket connections
    published,       \* history: every event passed to TimelineBroadcaster::broadcast
    sent,            \* every event the broadcast channel accepted; it retains the last Capacity
    conns,           \* connection -> [pc, start, next, user_id, auth_rx], with the
                     \* history fields auth_msg (what verify_jwt made of the last Auth
                     \* message passed on) and closed_by (the task that ended first)
    delivered,       \* history: connection -> positions of `sent` its rx.recv() returned
    lost,            \* history: connection -> positions overwritten before it read them
    forwarded        \* history: connection -> sequence of [pos, user_id] sent to the client

listenVars == <<subscriptions, timeline, timeline_ids, listener, handled, redelivered>>
castVars == <<published, sent, lost>>
connVars == <<conns, delivered, forwarded>>

VARIABLES
    \* ---- fossdb server: AdaptiveRateLimitedClient
    config,          \* AdaptiveConfig: [initial_rate, min_rate, max_rate]
    overflow_checks, \* TRUE in a build that panics on integer overflow, FALSE if it wraps
    current_rate,    \* the u32 behind the current_rate lock
    quota,           \* per-second quota of the RateLimiter behind the limiter lock
    callers,         \* caller -> where it is in get and report_result; "idle" after
                     \* get returned Ok, "failed" after it returned Err
    lastReport       \* history: the last report_result: [status, old, new, panicked],
                     \* with the length of the unbroken run of reports of its
                     \* kind (streak) and the rate when that run began (start)

rateVars == <<config, overflow_checks, current_rate, quota, callers, lastReport>>

VARIABLES
    \* ---- fossdb server: the license gate of the collectors
    gate             \* [words, verdict]: a license string, as the words it is made of,
                     \* and what is_free_license said of it

gateVars == <<gate>>

(* fossdb server: NotificationProcessor (notifications.rs) *)
VARIABLES
    notified,   \* the ids of the stored TimelineEvents whose notified_at is set
    mailer,     \* the processor task: where it is and the events it still has to take
    outbox,     \* history: the sends of the email service, in order
    runs        \* process_new_releases calls so far

mailVars == <<notified, mailer, outbox, runs>>

(* fossdb server: report_result of the AdaptiveRateLimitedClient, step by step *)
VARIABLES
    held,       \* per caller inside report_result: the status code and the old_rate it read
    applied     \* history: the status codes of the report_result calls that stored a rate

reportVars == <<held, applied>>

(* fossdb server: the IdGenerator of the timeline table across a restart *)
VARIABLES
    id_calls,   \* per caller of insert_timeline_event: the id it took, 0 outside the call
    issued,     \* history: the ids timeline_ids.next() returned since startup, in order
    at_start    \* history: the ids of the rows stored when Database::new ran

idVars == <<id_calls, issued, at_start>>

vars == <<coordVars, storeVars, collectVars, listenVars, castVars, connVars, rateVars, gateVars, mailVars, reportVars, idVars>>

--------------------------------------------------------------------------
(* Bounds of the model *)

NumTasks == 2
MaxCalls == 3
MaxPolls == 2
BatchSize == 2
MaxTime == 2
NumUsers == 2
MaxInserts == 2
MaxRedeliveries == 1
MaxFeed == 2
MaxRuns == 2
MaxReports == 3
NumConns == 2
NumCallers == 2
MaxBroadcasts == 2
MaxLagBroadcasts == 3
NumInserters == 2
MaxStoredId == 2
MaxIssued == 3
MaxStreak == 10
MaxWords == 3
\* Capacity of the broadcast channel; the program uses 100 (websocket.rs:40)
Capacity == 1

--------------------------------------------------------------------------
(* Strings whose characters matter (package names, license strings) are     *)
(* sequences of one-character strings.                                      *)

\* The characters used, in byte order
Ascii == <<
    " ", "-", ".", "/",
    "0", "1", "2", "3", "4", "5", "6", "7", "8", "9",
    "A", "B", "C", "D", "E", "F", "G", "H", "I", "J", "K", "L", "M",
    "N", "O", "P", "Q", "R", "S", "T", "U", "V", "W", "X", "Y", "Z",
    "_",
    "a", "b", "c", "d", "e", "f", "g", "h", "i", "j", "k", "l", "m",
    "n", "o", "p", "q", "r", "s", "t", "u", "v", "w", "x", "y", "z",
    "|" >>

ByteOf(c) == CHOOSE k \in 1..Len(Ascii) : Ascii[k] = c

\* str::to_lowercase on these characters
LowerChar(c) ==
    IF ByteOf(c) >= ByteOf("A") /\ ByteOf(c) <= ByteOf("Z")
    THEN Ascii[ByteOf(c) - ByteOf("A") + ByteOf("a")]
    ELSE c

to_lowercase(s) == [k \in 1..Len(s) |-> LowerChar(s[k])]

\* str::starts_with, byte-wise
StartsWith(s, prefix) ==
    Len(prefix) <= Len(s) /\ SubSeq(s, 1, Len(prefix)) = prefix

\* str::contains
Contains(s, pat) ==
    \E k \in 0..(Len(s) - Len(pat)) : SubSeq(s, k + 1, k + Len(pat)) = pat

\* Byte-wise lexicographic order of two keys
KeyLess(a, b) ==
    \/ Len(a) < Len(b) /\ StartsWith(b, a)
    \/ \E k \in 1..Len(a) :
        /\ k <= Len(b)
        /\ SubSeq(a, 1, k - 1) = SubSeq(b, 1, k - 1)
        /\ ByteOf(a[k]) < ByteOf(b[k])

\* is_free_license: the allow-list
free_licenses == {
    <<"m", "i", "t">>,
    <<"a", "p", "a", "c", "h", "e">>,
    <<"a", "p", "a", "c", "h", "e", "-", "2", ".", "0">>,
    <<"a", "p", "a", "c", "h", "e", " ", "2", ".", "0">>,
    <<"b", "s", "d">>,
    <<"i", "s", "c">>,
    <<"c", "c", "0">>,
    <<"u", "n", "l", "i", "c", "e", "n", "s", "e">>,
    <<"w", "t", "f", "p", "l">>,
    <<"0", "b", "s", "d">>,
    <<"b", "s", "l", "-", "1", ".", "0">>,
    <<"n", "c", "s", "a">>,
    <<"z", "l", "i", "b">>,
    <<"x", "1", "1">>,
    <<"g", "p", "l">>,
    <<"l", "g", "p", "l">>,
    <<"a", "g", "p", "l">>,
    <<"m", "p", "l">>,
    <<"e", "p", "l">>,
    <<"c", "p", "l">>,
    <<"c", "d", "d", "l">>,
    <<"c", "e", "c", "i", "l", "l">>,
    <<"e", "u", "p", "l">>,
    <<"o", "s", "l">>,
    <<"a", "f", "l">>,
    <<"a", "r", "t", "i", "s", "t", "i", "c">>,
    <<"c", "c", "-", "b", "y">>,
    <<"c", "c", "-", "b", "y", "-", "s", "a">>,
    <<"p", "u", "b", "l", "i", "c", " ", "d", "o", "m", "a", "i", "n">>,
    <<"p", "u", "b", "l", "i", "c", "d", "o", "m", "a", "i", "n">>,
    <<"u", "n", "l", "i", "c", "e", "n", "s", "e", "d">> }

\* is_free_license: the deny-list
non_free_keywords == {
    <<"p", "r", "o", "p", "r", "i", "e", "t", "a", "r", "y">>,
    <<"c", "o", "m", "m", "e", "r", "c", "i", "a", "l">>,
    <<"p", "r", "i", "v", "a", "t", "e">>,
    <<"c", "l", "o", "s", "e", "d">>,
    <<"a", "l", "l", " ", "r", "i", "g", "h", "t", "s", " ", "r", "e", "s", "e", "r", "v", "e", "d">>,
    <<"c", "o", "p", "y", "r", "i", "g", "h", "t", " ", "o", "n", "l", "y">>,
    <<"c", "c", "-", "b", "y", "-", "n", "d">>,
    <<"c", "c", "-", "b", "y", "-", "n", "c">> }

\* normalized.split(&[' ', '/', '|'][..]): the pieces between separators
IsSeparator(c) == c \in {" ", "/", "|"}

RECURSIVE SplitFrom(_, _, _)
SplitFrom(s, k, part) ==
    IF k > Len(s) THEN <<part>>
    ELSE IF IsSeparator(s[k]) THEN <<part>> \o SplitFrom(s, k + 1, <<>>)
    ELSE SplitFrom(s, k + 1, Append(part, s[k]))

split(s) == SplitFrom(s, 1, <<>>)

\* A faulty gate: the allow-list is consulted before the deny-list
is_free_license_allow_first(license) ==
    LET normalized == to_lowercase(license) IN
    IF \E free_license \in free_licenses : Contains(normalized, free_license) THEN TRUE
    ELSE FALSE

\* is_free_license: deny-list first, then the allow-list, then the pieces of
\* an "OR" expression, and FALSE for anything unknown
is_free_license(license) ==
    LET normalized == to_lowercase(license)
        parts == split(normalized) IN
    IF \E keyword \in non_free_keywords : Contains(normalized, keyword) THEN FALSE
    ELSE IF \E free_license \in free_licenses : Contains(normalized, free_license) THEN TRUE
    ELSE IF /\ (Contains(normalized, <<" ", "o", "r", " ">>) \/ Contains(normalized, <<"/">>))
            /\ \E k \in 1..Len(parts) :
                /\ parts[k] # <<>>
                /\ parts[k] # <<"o", "r">>
                /\ \E free_license \in free_licenses : Contains(parts[k], free_license)
         THEN TRUE
    ELSE FALSE

\* License strings are built from these words, joined by single spaces
LicenseWords == {
    <<"M", "I", "T">>,
    <<"O", "R">>,
    <<"A", "p", "a", "c", "h", "e", "-", "2", ".", "0">>,
    <<"C", "C", "-", "B", "Y", "-", "N", "C">>,
    <<"p", "r", "o", "p", "r", "i", "e", "t", "a", "r", "y">>,
    <<"P", "R", "O", "P", "R", "I", "E", "T", "A", "R", "Y">>,
    <<"C", "o", "m", "m", "e", "r", "c", "i", "a", "l">>,
    <<"C", "u", "s", "t", "o", "m", "L", "i", "c", "e", "n", "s", "e">>,
    <<"C", "u", "s", "t", "o", "m", "/", "O", "t", "h", "e", "r">> }

RECURSIVE Join(_)
Join(words) ==
    IF words = <<>> THEN <<>>
    ELSE IF Len(words) = 1 THEN words[1]
    ELSE words[1] \o <<" ">> \o Join(Tail(words))

Licenses == UNION {[1..n -> LicenseWords] : n \in 0..MaxWords}

\* No license string has been put to the gate
GateInit == gate = [words |-> <<>>, verdict |-> "unchecked"]

\* A collector holds a license string of a candidate it has not seen before
LicenseInit == \E words \in Licenses : gate = [words |-> words, verdict |-> "unchecked"]

\* The collector puts the license string to the gate
CheckLicense ==
    /\ gate.verdict = "unchecked"
    /\ gate' = [gate EXCEPT !.verdict = IF is_free_license(Join(gate.words))
                                        THEN "free" ELSE "non-free"]

--------------------------------------------------------------------------
(* fossdb-worker: PackageCoordinator *)

Tasks == 1..NumTasks

ScrapedNames == {"serde", "tokio"}

\* ScrapedPackage values handed to save_package: a name and its version list
ScrapedPackages ==
    {[name |-> n, versions |-> vs] : n \in ScrapedNames, vs \in {<<"1.0.0">>, <<"1.0.0", "1.1.0">>}}

NoPackage == [name |-> "", versions |-> <<>>]

\* Enough ids for every semaphore that can be referenced at one time
SemIds == 1..(NumTasks + Cardinality(ScrapedNames))

IdleTask == [pc |-> "idle", data |-> NoPackage, lock |-> 0, pkg |-> 0, i |-> 0]

CoordInit ==
    /\ package_locks = [n \in ScrapedNames |-> 0]
    /\ permits = [s \in SemIds |-> 1]
    /\ waiters = [s \in SemIds |-> <<>>]
    /\ tasks = [t \in Tasks |-> IdleTask]
    /\ wPackages = {}
    /\ wVersions = {}
    /\ wCalls = 0
    /\ returned = [n \in ScrapedNames |-> {}]

\* An Arc<Semaphore> is alive while the map or some task refers to it
SemInUse(s) ==
    \/ \E n \in ScrapedNames : package_locks[n] = s
    \/ \E t \in Tasks : tasks[t].lock = s

\* Semaphore::new(1): a semaphore nobody refers to, with its one permit
NewSemaphore == CHOOSE s \in SemIds : ~SemInUse(s) /\ \A r \in SemIds : r < s => SemInUse(r)

\* get_package_lock: entry(name).or_insert_with(Semaphore::new(1)).clone()
get_package_lock(name) ==
    IF package_locks[name] # 0 THEN package_locks[name] ELSE NewSemaphore

\* save_package, first statement: fetch or create the name's semaphore
GetPackageLock(t, package_data) ==
    /\ tasks[t].pc = "idle"
    /\ wCalls < MaxCalls
    /\ LET lock == get_package_lock(package_data.name) IN
        /\ package_locks' = [package_locks EXCEPT ![package_data.name] = lock]
        /\ tasks' = [tasks EXCEPT ![t] =
                        [pc |-> "acquire", data |-> package_data, lock |-> lock, pkg |-> 0, i |-> 0]]
    /\ wCalls' = wCalls + 1
    /\ UNCHANGED <<permits, waiters, wPackages, wVersions, returned>>

\* lock.acquire().await: take the permit, or queue behind the holder
Acquire(t) ==
    /\ tasks[t].pc = "acquire"
    /\ LET s == tasks[t].lock IN
        IF permits[s] >= 1 /\ waiters[s] = <<>>
        THEN /\ permits' = [permits EXCEPT ![s] = permits[s] - 1]
             /\ tasks' = [tasks EXCEPT ![t].pc = "check"]
             /\ UNCHANGED waiters
        ELSE /\ waiters' = [waiters EXCEPT ![s] = Append(waiters[s], t)]
             /\ tasks' = [tasks EXCEPT ![t].pc = "waiting"]
             /\ UNCHANGED permits
    /\ UNCHANGED <<package_locks, wPackages, wVersions, wCalls, returned>>

\* history: the save_package call of task t returned as `outcome`
Returned(t, outcome) ==
    returned' = [returned EXCEPT ![tasks[t].data.name] = @ \cup {outcome}]

\* A faulty return: the permit is neither put back nor handed on
ReturnAndForget(t) ==
    /\ tasks' = [tasks EXCEPT ![t] = IdleTask]
    /\ UNCHANGED <<permits, waiters>>

\* save_package returns: _permit is dropped, which hands the permit to the
\* first queued waiter or puts it back; the task's Arc is dropped with it
ReturnAndRelease(t) ==
    LET s == tasks[t].lock IN
    IF waiters[s] # <<>>
    THEN /\ tasks' = [tasks EXCEPT ![t] = IdleTask, ![Head(waiters[s])].pc = "check"]
         /\ waiters' = [waiters EXCEPT ![s] = Tail(waiters[s])]
         /\ UNCHANGED permits
    ELSE /\ tasks' = [tasks EXCEPT ![t] = IdleTask]
         /\ permits' = [permits EXCEPT ![s] = permits[s] + 1]
         /\ UNCHANGED waiters

\* check_existing_package: Ok(true) when the find returns a document,
\* Ok(false) when it returns none and also when the query fails
check_existing_package(name, query_ok) ==
    IF query_ok THEN \E p \in wPackages : p.name = name ELSE FALSE

\* save_package: the existence check; an existing package returns Ok(())
CheckExisting(t) ==
    /\ tasks[t].pc = "check"
    /\ \E query_ok \in BOOLEAN :
        IF check_existing_package(tasks[t].data.name, query_ok)
        THEN /\ ReturnAndRelease(t)
             /\ Returned(t, "skipped")
        ELSE /\ tasks' = [tasks EXCEPT ![t].pc = "save"]
             /\ UNCHANGED <<permits, waiters, returned>>
    /\ UNCHANGED <<package_locks, wPackages, wVersions, wCalls>>

\* Uuid::new_v4(): an id no stored row carries
NewPackageId == Cardinality(wPackages) + 1
NewVersionId == Cardinality(wVersions) + 1

\* save_package_to_database: packages().save; an error returns through `?`
SavePackageRow(t) ==
    /\ tasks[t].pc = "save"
    /\ \E saved \in BOOLEAN :
        IF saved
        THEN /\ wPackages' = wPackages \cup {[id |-> NewPackageId, name |-> tasks[t].data.name]}
             /\ tasks' = [tasks EXCEPT ![t].pc = "versions", ![t].pkg = NewPackageId, ![t].i = 1]
             /\ UNCHANGED <<permits, waiters, returned>>
        ELSE /\ ReturnAndRelease(t)
             /\ Returned(t, "error")
             /\ UNCHANGED wPackages
    /\ UNCHANGED <<package_locks, wVersions, wCalls>>

\* save_package_to_database: the loop over package_data.versions; a failed
\* versions().save returns through `?`, the end of the list returns Ok(())
SaveVersionRow(t) ==
    /\ tasks[t].pc = "versions"
    /\ LET vs == tasks[t].data.versions
           i == tasks[t].i IN
        \E saved \in BOOLEAN :
            IF saved
            THEN /\ wVersions' = wVersions \cup
                        {[id |-> NewVersionId, package_id |-> tasks[t].pkg, version |-> vs[i]]}
                 /\ IF i < Len(vs)
                    THEN /\ tasks' = [tasks EXCEPT ![t].i = i + 1]
                         /\ UNCHANGED <<permits, waiters, returned>>
                    ELSE /\ ReturnAndRelease(t)
                         /\ Returned(t, "saved")
            ELSE /\ ReturnAndRelease(t)
                 /\ Returned(t, "error")
                 /\ UNCHANGED wVersions
    /\ UNCHANGED <<package_locks, wPackages, wCalls>>

\* A faulty sweep: every entry is dropped, whoever holds its permit
retain_lock_never(name) == FALSE

\* cleanup_unused_locks: retain(|_, semaphore| semaphore.available_permits() < 1)
retain_lock(name) == permits[package_locks[name]] < 1

\* history: a sweep found the entry of a name and kept it
Swept(n) == IF package_locks[n] # 0 /\ retain_lock(n) THEN {"kept"} ELSE {}

CleanupUnusedLocks ==
    /\ package_locks' = [n \in ScrapedNames |->
                            IF package_locks[n] # 0 /\ retain_lock(n) THEN package_locks[n] ELSE 0]
    /\ returned' = [n \in ScrapedNames |-> returned[n] \cup Swept(n)]
    /\ UNCHANGED <<permits, waiters, tasks, wPackages, wVersions, wCalls>>

--------------------------------------------------------------------------
(* fossdb server: the native_db store (db.rs, models.rs) *)

Times == 1..MaxTime

NameSerde == <<"s", "e", "r", "d", "e">>
NameSerdeJson == <<"s", "e", "r", "d", "e", "_", "j", "s", "o", "n">>
PackageNames == {NameSerde, NameSerdeJson}

NoPackageRow == [id |-> 0, name |-> <<>>, updated_at |-> 0]

StoreInit ==
    /\ packages = {}
    /\ versions = {}
    /\ package_ids = 1
    /\ version_ids = 1
    /\ watching = FALSE
    /\ feed = <<>>

\* get_package_by_name: scan().secondary(name).start_with(name), first result.
\* The scan yields, in key order, every row whose name starts with `name`.
get_package_by_name(name) ==
    LET results == {p \in packages : StartsWith(p.name, name)} IN
    IF results = {} THEN NoPackageRow
    ELSE CHOOSE p \in results : \A q \in results : q = p \/ KeyLess(p.name, q.name)

\* get_package: primary-key lookup
\* A faulty lookup: a missing id yields some stored package
get_package_any(id) ==
    IF \E p \in packages : p.id = id THEN CHOOSE p \in packages : p.id = id
    ELSE IF packages # {} THEN CHOOSE p \in packages : TRUE
    ELSE NoPackageRow

get_package(id) ==
    IF \E p \in packages : p.id = id THEN CHOOSE p \in packages : p.id = id ELSE NoPackageRow

\* get_versions_by_package: the rows whose package_id key is `package_id`
get_versions_by_package(package_id) == {v \in versions : v.package_id = package_id}

\* insert_package commits unless the transaction fails or the unique
\* secondary key `name` is already taken
insert_package_commits(name, io_ok) == io_ok /\ \A p \in packages : p.name # name

\* insert_package: id 0 takes the next id from the generator, then rw.insert
insert_package(name, updated_at, io_ok) ==
    /\ package_ids' = package_ids + 1
    /\ packages' = IF insert_package_commits(name, io_ok)
                   THEN packages \cup {[id |-> package_ids, name |-> name, updated_at |-> updated_at]}
                   ELSE packages

\* update_package whose removal of the old row outlives a failed insert
update_package_removing(package, io_ok) ==
    packages' = IF io_ok
                THEN {p \in packages : p.id # package.id} \cup {package}
                ELSE {p \in packages : p.id # package.id}

\* update_package: remove the old row of this id and insert the new one
update_package(package, io_ok) ==
    packages' = IF io_ok
                THEN {p \in packages : p.id # package.id} \cup {package}
                ELSE packages

\* history: the users subscribed to a package name
Subscribers(name) == {u \in DOMAIN subscriptions : \E sub \in subscriptions[u] : sub.package_name = name}

\* A notification of the watch: the kind of change and the row, with the
\* users subscribed to the row's package at that moment (history)
Notification(kind, row) ==
    [kind |-> kind, version |-> row,
     subs |-> UNION {Subscribers(p.name) : p \in {q \in packages : q.id = row.package_id}}]

\* The row insert_version writes
version_row(package_id, version) ==
    [id |-> version_ids, package_id |-> package_id, version |-> version]

\* A faulty feed: the newest notification is handed out first
insert_version_lifo(package_id, version, io_ok) ==
    /\ version_ids' = version_ids + 1
    /\ versions' = IF io_ok THEN versions \cup {version_row(package_id, version)} ELSE versions
    /\ feed' = IF io_ok /\ watching
               THEN <<Notification("Insert", version_row(package_id, version))>> \o feed
               ELSE feed

\* insert_version: id 0 takes the next id, then rw.insert; a commit notifies
\* the registered watch of the insert
insert_version(package_id, version, io_ok) ==
    /\ version_ids' = version_ids + 1
    /\ versions' = IF io_ok THEN versions \cup {version_row(package_id, version)} ELSE versions
    /\ feed' = IF io_ok /\ watching
               THEN Append(feed, Notification("Insert", version_row(package_id, version)))
               ELSE feed

--------------------------------------------------------------------------
(* fossdb server: the collectors (collectors/crates_io.rs, libraries_io.rs) *)

Collectors == {"crates.io", "libraries.io", "nixpkgs"}

\* Option<String>: None is the empty sequence, Some(s) holds s
NoLicense == <<>>
Some(s) == <<s>>

LicenseMIT == <<"M", "I", "T">>
LicenseProprietaryMIT ==
    <<"p", "r", "o", "p", "r", "i", "e", "t", "a", "r", "y", " ", "M", "I", "T">>

Version100 == [num |-> "1.0.0", yanked |-> FALSE]
Version110 == [num |-> "1.1.0", yanked |-> FALSE]
Version110Yanked == [num |-> "1.1.0", yanked |-> TRUE]

\* What crates.io reports for a crate: the search result's name and
\* updated_at, and the full crate's license and versions
CrateCandidates ==
    {[name |-> n, updated_at |-> u, license |-> l, versions |-> vs] :
        n \in PackageNames, u \in Times,
        l \in {NoLicense, Some(LicenseMIT), Some(LicenseProprietaryMIT)},
        vs \in {<<Version100>>, <<Version110, Version100>>, <<Version110Yanked>>}}

\* What scrape_platform builds from a libraries.io project (no yanked flag, no
\* timestamp used): the version list holds the latest release, if there is one
LibraryCandidates ==
    {[name |-> n, updated_at |-> 0, license |-> l, versions |-> vs] :
        n \in PackageNames,
        l \in {NoLicense, Some(LicenseMIT), Some(LicenseProprietaryMIT)},
        vs \in {<<>>, <<Version100>>, <<Version110>>}}

\* What the nixpkgs search reports for a package: the license of its
\* metadata, if any, and its current version, if any
NixCandidates ==
    {[name |-> n, updated_at |-> 0, license |-> l, versions |-> vs] :
        n \in PackageNames,
        l \in {NoLicense, Some(LicenseMIT), Some(LicenseProprietaryMIT)},
        vs \in {<<>>, <<Version100>>}}

CandidatesOf(c) ==
    IF c = "crates.io" THEN CrateCandidates
    ELSE IF c = "libraries.io" THEN LibraryCandidates
    ELSE NixCandidates

NoCandidate == [name |-> <<>>, updated_at |-> 0, license |-> NoLicense, versions |-> <<>>]

\* A collector between two candidates of one collect() call. `last` is the
\* outcome of the candidate before, `left` the number of candidates of the
\* batch the loop has not taken yet, `fresh` whether no package of the
\* candidate's name was stored when it was looked up
IdleCollector ==
    [pc |-> "idle", cand |-> NoCandidate, existing |-> NoPackageRow, seen |-> {}, pkg |-> 0,
     i |-> 0, last |-> "none", left |-> 0, fresh |-> FALSE]

\* A collector whose collect() is not running: run_collector_loop sleeps
SleepingCollector == [IdleCollector EXCEPT !.pc = "sleep"]

CollectInit ==
    /\ col = [c \in Collectors |-> SleepingCollector]
    /\ polls = 0

\* The loop is done with a candidate and goes to the next one
Done(outcome, left) == [IdleCollector EXCEPT !.last = outcome, !.left = left]

\* crates.io: full_crate.versions.iter().filter(|v| !v.yanked).take(10)
TakeLimit == 10

Take(s, n) == SubSeq(s, 1, IF Len(s) < n THEN Len(s) ELSE n)

NotYanked(v) == ~v.yanked

\* The version list a collector walks
VersionsToSave(c, cand) ==
    IF c = "crates.io" THEN Take(SelectSeq(cand.versions, NotYanked), TakeLimit)
    ELSE cand.versions

\* The license gate on a candidate: a missing license and a license
\* is_free_license rejects are both skipped
LicenseAccepted(license) == license # NoLicense /\ is_free_license(license[1])

\* run_collector_loop calls collect(), which fetches a batch of candidates
StartCollect(c) ==
    /\ col[c].pc = "sleep"
    /\ polls < MaxPolls
    /\ \E n \in 1..BatchSize : col' = [col EXCEPT ![c] = Done("none", n)]
    /\ UNCHANGED <<storeVars, polls>>

\* A faulty loop: an error of collect() ends run_collector_loop
StartCollectFailsExits(c) ==
    /\ col[c].pc = "sleep"
    /\ polls < MaxPolls
    /\ col' = [col EXCEPT ![c] = [IdleCollector EXCEPT !.pc = "exited", !.last = "fetch error"]]
    /\ UNCHANGED <<storeVars, polls>>

\* run_collector_loop calls collect(), whose fetch of the listing fails
\* (crates.io: client.crates(query).await?, libraries.io: get_platforms()
\* .await?, nixpkgs: search_packages().await?): collect() returns the error,
\* the loop logs it and sleeps
StartCollectFails(c) ==
    /\ col[c].pc = "sleep"
    /\ polls < MaxPolls
    /\ col' = [col EXCEPT ![c] = [SleepingCollector EXCEPT !.last = "fetch error"]]
    /\ UNCHANGED <<storeVars, polls>>

\* collect() returns Ok(()) after the last candidate of the batch
EndCollect(c) ==
    /\ col[c].pc = "idle"
    /\ col[c].left = 0
    /\ col' = [col EXCEPT ![c].pc = "sleep"]
    /\ UNCHANGED <<storeVars, polls>>

\* A faulty comparison: a search result as old as the stored row is not skipped
not_updated_strict(cand, existing) == cand.updated_at < existing.updated_at

\* crates.io: krate.updated_at <= existing_package.updated_at
not_updated(cand, existing) == cand.updated_at <= existing.updated_at

\* The collector loop takes the next candidate and looks its name up
\* (libraries.io drops a candidate failing the license gate in scrape_platform,
\* before the lookup; nixpkgs skips every package it finds stored)
LookupPackage(c, cand) ==
    /\ col[c].pc = "idle"
    /\ col[c].left > 0
    /\ polls < MaxPolls
    /\ polls' = polls + 1
    /\ \E io_ok \in BOOLEAN :
        LET existing == get_package_by_name(cand.name)
            left == col[c].left - 1
            fresh == \A p \in packages : p.name # cand.name IN
        IF c = "libraries.io" /\ ~LicenseAccepted(cand.license)
        THEN col' = [col EXCEPT ![c] = Done("non-free license", left)]
        ELSE IF ~io_ok
        THEN col' = [col EXCEPT ![c] = Done("error", left)]
        ELSE IF existing # NoPackageRow
        THEN IF c = "crates.io" /\ not_updated(cand, existing)
             THEN col' = [col EXCEPT ![c] = Done("up to date", left)]
             ELSE IF c = "nixpkgs"
             THEN col' = [col EXCEPT ![c] = Done("exists", left)]
             ELSE col' = [col EXCEPT ![c] =
                            [IdleCollector EXCEPT !.pc = "existing", !.cand = cand,
                                                  !.existing = existing, !.pkg = existing.id,
                                                  !.left = left, !.fresh = fresh]]
        ELSE col' = [col EXCEPT ![c] =
                        [IdleCollector EXCEPT !.pc = "new", !.cand = cand,
                                              !.left = left, !.fresh = fresh]]
    /\ UNCHANGED storeVars

\* Existing package: fetch the details (crates.io only) and read the stored
\* versions into existing_version_nums. A failed fetch is logged and the loop
\* goes on. A failed read of the versions is logged by libraries.io, which
\* goes on; in crates.io the `?` returns the error from collect(), with the
\* rest of the batch untouched
ReadExistingVersions(c) ==
    /\ col[c].pc = "existing"
    /\ \E fetched \in BOOLEAN, io_ok \in BOOLEAN :
        IF c = "crates.io" /\ ~fetched
        THEN col' = [col EXCEPT ![c] = Done("fetch failed", col[c].left)]
        ELSE IF ~io_ok
        THEN col' = [col EXCEPT ![c] =
                        IF c = "crates.io"
                        THEN [SleepingCollector EXCEPT !.last = "error", !.left = col[c].left]
                        ELSE Done("error", col[c].left)]
        ELSE col' = [col EXCEPT ![c].pc = "diff", ![c].i = 1,
                                ![c].seen = {v.version : v \in get_versions_by_package(col[c].pkg)}]
    /\ UNCHANGED <<storeVars, polls>>

\* Where the collector goes after the last version of the list
AfterVersions(c, pc) ==
    IF pc = "diff" /\ c = "crates.io" THEN "update_ts" ELSE "idle"

\* One turn of a version loop: the diff loop inserts a version whose string
\* is not in existing_version_nums, the new-package loop inserts every one;
\* a failed insert is logged and the loop goes on
InsertNextVersion(c) ==
    /\ col[c].pc \in {"diff", "insert_versions"}
    /\ LET vs == VersionsToSave(c, col[c].cand)
           i == col[c].i
           next == IF i < Len(vs)
                   THEN [col[c] EXCEPT !.i = i + 1]
                   ELSE IF AfterVersions(c, col[c].pc) = "idle" THEN Done("inserted", col[c].left)
                   ELSE [col[c] EXCEPT !.pc = "update_ts"] IN
        /\ i <= Len(vs)
        /\ col' = [col EXCEPT ![c] = next]
        /\ IF col[c].pc = "diff" /\ vs[i].num \in col[c].seen
           THEN UNCHANGED storeVars
           ELSE /\ \E io_ok \in BOOLEAN : insert_version(col[c].pkg, vs[i].num, io_ok)
                /\ UNCHANGED <<packages, package_ids, watching>>
    /\ UNCHANGED polls

\* A version loop over an empty list
SkipEmptyVersions(c) ==
    /\ col[c].pc \in {"diff", "insert_versions"}
    /\ VersionsToSave(c, col[c].cand) = <<>>
    /\ col' = [col EXCEPT ![c] =
                IF AfterVersions(c, col[c].pc) = "idle" THEN Done("inserted", col[c].left)
                ELSE [col[c] EXCEPT !.pc = "update_ts"]]
    /\ UNCHANGED <<storeVars, polls>>

\* crates.io: write the search result's updated_at into the package read at
\* lookup time; a failure is logged
UpdateTimestamp(c) ==
    /\ col[c].pc = "update_ts"
    /\ \E io_ok \in BOOLEAN :
        update_package([col[c].existing EXCEPT !.updated_at = col[c].cand.updated_at], io_ok)
    /\ col' = [col EXCEPT ![c] = Done("inserted", col[c].left)]
    /\ UNCHANGED <<versions, package_ids, version_ids, watching, feed, polls>>

\* New package: fetch the details and apply the license gate (crates.io),
\* then insert_package; a failure is logged and the candidate dropped.
\* nixpkgs inserts the package whatever its license is
InsertNewPackage(c) ==
    /\ col[c].pc = "new"
    /\ \E fetched \in BOOLEAN, io_ok \in BOOLEAN, now \in Times :
        LET cand == col[c].cand
            updated_at == IF c = "crates.io" THEN cand.updated_at ELSE now IN
        IF c = "crates.io" /\ ~fetched
        THEN /\ col' = [col EXCEPT ![c] = Done("fetch failed", col[c].left)]
             /\ UNCHANGED <<packages, package_ids>>
        ELSE IF c = "crates.io" /\ ~LicenseAccepted(cand.license)
        THEN /\ col' = [col EXCEPT ![c] = Done("non-free license", col[c].left)]
             /\ UNCHANGED <<packages, package_ids>>
        ELSE /\ insert_package(cand.name, updated_at, io_ok)
             /\ col' = [col EXCEPT ![c] =
                            IF insert_package_commits(cand.name, io_ok)
                            THEN [col[c] EXCEPT !.pc = "insert_versions", !.pkg = package_ids, !.i = 1]
                            ELSE Done("error", col[c].left)]
    /\ UNCHANGED <<versions, version_ids, watching, feed, polls>>

--------------------------------------------------------------------------
(* fossdb server: TimelineBroadcaster (websocket.rs) *)

Users == 1..NumUsers
Conns == 1..NumConns

\* Option<u64>: None, or Some(u)
None == <<>>
Owners == {None} \cup {Some(u) : u \in Users}

\* models::TimelineEvent of a NewRelease; id 0 until insert_timeline_event
\* gives it one
TimelineEvent(id, package, user_id, version) ==
    [id |-> id, package_id |-> package.id, user_id |-> user_id,
     package_name |-> package.name, version |-> version]

NewConn == [pc |-> "new", start |-> 0, next |-> 0, user_id |-> None, auth_rx |-> <<>>,
            auth_msg |-> [ok |-> FALSE, sub |-> ""], closed_by |-> "none"]

CastInit ==
    /\ published = <<>>
    /\ sent = <<>>
    /\ lost = [c \in Conns |-> {}]
    /\ conns = [c \in Conns |-> NewConn]
    /\ delivered = [c \in Conns |-> {}]
    /\ forwarded = [c \in Conns |-> <<>>]

\* The receivers alive: the rx of every handle_socket still running
Receivers == {c \in Conns : conns[c].pc = "open"}

\* The channel's tail: the position the next accepted event gets is tail + 1
tail == Len(sent)

\* A faulty broadcast: a bounded queue that makes the publisher wait while
\* some receiver's buffer is full
broadcast_waiting(event) ==
    /\ \A c \in Receivers : tail - conns[c].next < Capacity
    /\ published' = Append(published, event)
    /\ IF Receivers = {}
       THEN UNCHANGED <<sent, lost>>
       ELSE /\ sent' = Append(sent, event)
            /\ UNCHANGED lost

\* A faulty subscribe: a receiver that starts at the oldest retained event
subscribe_oldest == IF tail > Capacity THEN tail - Capacity ELSE 0

\* TimelineBroadcaster::broadcast: tx.send(event), its result ignored. send
\* never waits: with no receiver it returns the event in an error, otherwise
\* it writes the event over the oldest slot of the ring, whoever has read it
broadcast(event) ==
    /\ published' = Append(published, event)
    /\ IF Receivers = {}
       THEN UNCHANGED <<sent, lost>>
       ELSE /\ sent' = Append(sent, event)
            /\ lost' = [c \in Conns |->
                           IF c \in Receivers /\ tail + 1 - Capacity > conns[c].next
                           THEN lost[c] \cup {tail + 1 - Capacity}
                           ELSE lost[c]]

\* TimelineBroadcaster::subscribe: a receiver that starts at the tail
subscribe == tail

\* rx.recv() of a receiver whose next slot was overwritten: Err(Lagged)
Lagging(c) == tail - conns[c].next > Capacity

\* Events a caller may publish: one release, personal or global
SomePackage == [id |-> 1, name |-> NameSerde, updated_at |-> 1]
WsEvents == {TimelineEvent(0, SomePackage, o, Version100.num) : o \in Owners}

\* A caller of TimelineBroadcaster::broadcast
Broadcast(event) ==
    /\ Len(published) < MaxBroadcasts
    /\ broadcast(event)
    /\ UNCHANGED connVars

--------------------------------------------------------------------------
(* fossdb server: one WebSocket connection (websocket.rs, handle_socket) *)

\* One of the two tasks of a connection ends: handle_socket aborts the other
\* and returns, which drops the socket and the channels between the tasks
Closed(conn, by) ==
    [conn EXCEPT !.pc = "closed", !.closed_by = by, !.auth_rx = <<>>,
                 !.auth_msg = [ok |-> FALSE, sub |-> ""]]

\* handle_socket up to the two spawns: subscribe, user_id = None, channels
WsConnect(c) ==
    /\ conns[c].pc = "new"
    /\ conns' = [conns EXCEPT ![c] = [NewConn EXCEPT !.pc = "open", !.start = tail,
                                                      !.next = subscribe]]
    /\ UNCHANGED <<castVars, delivered, forwarded>>

\* What verify_jwt makes of the token of an Auth message: Err, or Ok(claims)
\* with the subject of the claims, a string
Subjects == {"1", "2", "admin"}
Verified == [ok : BOOLEAN, sub : Subjects]

\* claims.sub.parse::<u64>(): Some(uid), or None for a string that is no number
parse_u64(sub) == IF sub = "1" THEN Some(1) ELSE IF sub = "2" THEN Some(2) ELSE None

\* A faulty check: the subject is taken from a token verify_jwt rejected
auth_uid_unverified(v) == parse_u64(v.sub)

\* recv_task, the two conditions on an Auth message: the user id it yields
auth_uid(v) == IF v.ok THEN parse_u64(v.sub) ELSE None

\* recv_task: an Auth message; a token that verifies and whose subject is a
\* number is passed on by auth_tx.send(uid).await, which waits while the
\* channel of capacity 1 is full; any other token is dropped
ClientAuth(c, v) ==
    /\ conns[c].pc = "open"
    /\ IF auth_uid(v) = None
       THEN UNCHANGED conns
       ELSE /\ conns[c].auth_rx = <<>>
            /\ conns' = [conns EXCEPT ![c].auth_rx = auth_uid(v), ![c].auth_msg = v]
    /\ UNCHANGED <<castVars, delivered, forwarded>>

\* A faulty filter: an unauthenticated connection is sent everything
should_send_any(user_id, event_user_id) ==
    \/ user_id = None
    \/ user_id # None /\ event_user_id # None /\ user_id[1] = event_user_id[1]

\* The filter of the send task
should_send(user_id, event_user_id) ==
    \/ user_id = None /\ event_user_id = None
    \/ user_id # None /\ event_user_id # None /\ user_id[1] = event_user_id[1]

\* send_task, branch Ok(db_event) = rx.recv(): filter, convert, send
WsRecvEvent(c) ==
    /\ conns[c].pc = "open"
    /\ conns[c].next < tail
    /\ ~Lagging(c)
    /\ LET pos == conns[c].next + 1 IN
       /\ delivered' = [delivered EXCEPT ![c] = @ \cup {pos}]
       /\ IF should_send(conns[c].user_id, sent[pos].user_id)
          THEN \E send_ok \in BOOLEAN :
                  IF send_ok
                  THEN /\ forwarded' = [forwarded EXCEPT
                                           ![c] = Append(@, [pos |-> pos, user_id |-> conns[c].user_id])]
                       /\ conns' = [conns EXCEPT ![c].next = pos]
                  ELSE /\ conns' = [conns EXCEPT
                                          ![c] = Closed([@ EXCEPT !.next = pos], "send_task")]
                       /\ UNCHANGED forwarded
          ELSE /\ conns' = [conns EXCEPT ![c].next = pos]
               /\ UNCHANGED forwarded
    /\ UNCHANGED castVars

\* A faulty send task: Err(Lagged) of rx.recv() ends the loop
WsRecvLaggedCloses(c) ==
    /\ conns[c].pc = "open"
    /\ Lagging(c)
    /\ conns' = [conns EXCEPT ![c] = Closed([@ EXCEPT !.next = tail - Capacity], "send_task")]
    /\ UNCHANGED <<castVars, delivered, forwarded>>

\* send_task, rx.recv() returns Err(Lagged): the pattern Ok(_) does not match,
\* the receiver moves to the oldest retained event and the loop goes on
WsRecvLagged(c) ==
    /\ conns[c].pc = "open"
    /\ Lagging(c)
    /\ conns' = [conns EXCEPT ![c].next = tail - Capacity]
    /\ UNCHANGED <<castVars, delivered, forwarded>>

\* send_task, branch Some(uid) = auth_rx.recv()
WsTakeAuth(c) ==
    /\ conns[c].pc = "open"
    /\ conns[c].auth_rx # <<>>
    /\ conns' = [conns EXCEPT ![c].user_id = Some(Head(conns[c].auth_rx)), ![c].auth_rx = <<>>]
    /\ UNCHANGED <<castVars, delivered, forwarded>>

\* A Ping message of the client: recv_task passes it through ping_tx and the
\* send_task branch Some(()) = ping_rx.recv() answers Pong
WsPong(c) ==
    /\ conns[c].pc = "open"
    /\ \E send_ok \in BOOLEAN :
          conns' = IF send_ok THEN conns ELSE [conns EXCEPT ![c] = Closed(@, "send_task")]
    /\ UNCHANGED <<castVars, delivered, forwarded>>

\* send_task, branch sleep(30 s): send a keepalive Ping; no answer is awaited
WsKeepalive(c) ==
    /\ conns[c].pc = "open"
    /\ \E send_ok \in BOOLEAN :
          conns' = IF send_ok THEN conns ELSE [conns EXCEPT ![c] = Closed(@, "send_task")]
    /\ UNCHANGED <<castVars, delivered, forwarded>>

\* recv_task ends (the client closed or the socket failed): send_task is
\* aborted and rx is dropped
WsClose(c) ==
    /\ conns[c].pc = "open"
    /\ conns' = [conns EXCEPT ![c] = Closed(@, "recv_task")]
    /\ UNCHANGED <<castVars, delivered, forwarded>>

--------------------------------------------------------------------------
(* fossdb server: subscriptions and the PackageVersion listener
   (handlers/users.rs, db.rs, db_listener.rs) *)

NoVersionRow == [id |-> 0, package_id |-> 0, version |-> ""]

IdleListener == [pc |-> "recv", version |-> NoVersionRow, package |-> NoPackageRow,
                 users |-> <<>>, todo |-> <<>>, clean |-> TRUE, failed |-> {}]

ListenInit ==
    /\ subscriptions = [u \in Users |-> {}]
    /\ timeline = {}
    /\ timeline_ids = 1
    /\ listener = IdleListener
    /\ handled = <<>>
    /\ redelivered = 0

\* Database::insert_package called with a new package
InsertPackage(name) ==
    /\ package_ids <= MaxInserts
    /\ \E io_ok \in BOOLEAN : insert_package(name, MaxTime, io_ok)
    /\ UNCHANGED <<versions, version_ids, watching, feed>>

\* Database::insert_version called with a version of a stored package
InsertVersion(package_id, version) ==
    /\ version_ids <= MaxInserts
    /\ \E p \in packages : p.id = package_id
    /\ \E io_ok \in BOOLEAN : insert_version(package_id, version, io_ok)
    /\ UNCHANGED <<packages, package_ids, watching>>

\* add_subscription: the package must exist; a user not yet subscribed to
\* the name gets a PackageSubscription with notifications enabled
AddSubscription(u, name) ==
    /\ get_package_by_name(name) # NoPackageRow
    /\ \A s \in subscriptions[u] : s.package_name # name
    /\ subscriptions' = [subscriptions EXCEPT
                            ![u] = @ \cup {[package_name |-> name, notifications_enabled |-> TRUE]}]
    /\ UNCHANGED <<timeline, timeline_ids, listener, handled, redelivered>>

\* update_package_notification: the flag of the user's subscription to the
\* name is set to the payload's; without such a subscription the handler
\* answers NOT_FOUND, and a failed update_user leaves the stored user as it was
UpdatePackageNotification(u, name, enabled) ==
    /\ \E s \in subscriptions[u] : s.package_name = name
    /\ \E io_ok \in BOOLEAN :
          subscriptions' = [subscriptions EXCEPT
              ![u] = IF io_ok
                     THEN {IF s.package_name = name
                           THEN [s EXCEPT !.notifications_enabled = enabled]
                           ELSE s : s \in @}
                     ELSE @]
    /\ UNCHANGED <<timeline, timeline_ids, listener, handled, redelivered>>

\* get_users_subscribed_to: the users, in primary-key order, whose
\* subscriptions contain the package name
get_users_subscribed_to(package_name) ==
    SelectSeq([u \in Users |-> u],
              LAMBDA u : \E s \in subscriptions[u] : s.package_name = package_name)

\* spawn_package_version_listener: register the watch on PackageVersion; it
\* is called once
SpawnListener ==
    /\ ~watching
    /\ listener.pc = "recv"
    /\ \A k \in 1..Len(feed) : feed[k].kind # "Disconnected"
    /\ watching' = TRUE
    /\ UNCHANGED <<packages, versions, package_ids, version_ids, feed>>

\* Database::insert_version called with a package_id no stored package has:
\* insert_version does not look the package up
InsertOrphanVersion(package_id, version) ==
    /\ version_ids <= MaxInserts
    /\ \A p \in packages : p.id # package_id
    /\ \E io_ok \in BOOLEAN : insert_version(package_id, version, io_ok)
    /\ UNCHANGED <<packages, package_ids, watching>>

\* A PackageVersion row is updated or removed through the native_db handle
\* (no function of Database does it): the watch is notified of the change
ChangeVersion(kind, row) ==
    /\ row \in versions
    /\ Len(feed) < MaxFeed
    /\ versions' = IF kind = "Delete" THEN versions \ {row} ELSE versions
    /\ feed' = IF watching THEN Append(feed, Notification(kind, row)) ELSE feed
    /\ UNCHANGED <<packages, package_ids, version_ids, watching>>

\* The sending side of the watch channel goes away: what is queued stays
\* readable, and after it recv() returns an error
FeedDisconnect ==
    /\ watching
    /\ watching' = FALSE
    /\ feed' = Append(feed, Notification("Disconnected", NoVersionRow))
    /\ UNCHANGED <<packages, versions, package_ids, version_ids>>

\* A faulty loop: an error of recv() is logged and the loop goes on
ListenerStopIgnored ==
    /\ listener.pc = "recv"
    /\ feed # <<>>
    /\ Head(feed).kind = "Disconnected"
    /\ feed' = Tail(feed)
    /\ UNCHANGED <<packages, versions, package_ids, version_ids, watching>>
    /\ UNCHANGED <<subscriptions, timeline, timeline_ids, listener, handled, redelivered>>

\* The listener loop, recv() returns Err: the error is logged and the loop
\* is left, which ends the task
ListenerStop ==
    /\ listener.pc = "recv"
    /\ feed # <<>>
    /\ Head(feed).kind = "Disconnected"
    /\ feed' = Tail(feed)
    /\ listener' = [listener EXCEPT !.pc = "stopped"]
    /\ UNCHANGED <<packages, versions, package_ids, version_ids, watching>>
    /\ UNCHANGED <<subscriptions, timeline, timeline_ids, handled, redelivered>>

\* A faulty match: every notification is taken for an insert
is_insert_any(event) == TRUE

\* handle_package_version_event, the match on the event: Insert goes on,
\* Update and Delete return Ok(())
is_insert(event) == event.kind = "Insert"

\* A faulty loop: an error of handle_package_version_event ends the loop
ListenerRecvFatal ==
    /\ listener.pc = "recv"
    /\ feed # <<>>
    /\ Head(feed).kind # "Disconnected"
    /\ feed' = Tail(feed)
    /\ \E get_ok \in BOOLEAN, users_ok \in BOOLEAN :
          LET event == Head(feed)
              package == get_package(event.version.package_id)
              users == IF users_ok THEN get_users_subscribed_to(package.name) ELSE <<>>
          IN  IF is_insert(event) /\ ~get_ok
              THEN listener' = [listener EXCEPT !.pc = "stopped"]
              ELSE IF ~is_insert(event) \/ package = NoPackageRow
              THEN UNCHANGED listener
              ELSE listener' = [pc |-> "users", version |-> event.version, package |-> package,
                                users |-> users, todo |-> users, clean |-> users_ok,
                                failed |-> {}]
    /\ UNCHANGED <<packages, versions, package_ids, version_ids, watching>>
    /\ UNCHANGED <<subscriptions, timeline, timeline_ids, handled, redelivered>>

\* The listener loop receives one notification and handle_package_version_event
\* runs up to the loop over the subscribed users: Update and Delete return, a
\* failed or empty get_package returns, a failed get_users_subscribed_to is
\* logged and leaves no user to notify
ListenerRecv ==
    /\ listener.pc = "recv"
    /\ feed # <<>>
    /\ Head(feed).kind # "Disconnected"
    /\ feed' = Tail(feed)
    /\ \E get_ok \in BOOLEAN, users_ok \in BOOLEAN :
          LET event == Head(feed)
              package == get_package(event.version.package_id)
              users == IF users_ok THEN get_users_subscribed_to(package.name) ELSE <<>>
          IN  IF ~is_insert(event) \/ ~get_ok \/ package = NoPackageRow
              THEN UNCHANGED listener
              ELSE listener' = [pc |-> "users", version |-> event.version, package |-> package,
                                users |-> users, todo |-> users, clean |-> users_ok,
                                failed |-> {}]
    /\ UNCHANGED <<packages, versions, package_ids, version_ids, watching>>
    /\ UNCHANGED <<subscriptions, timeline, timeline_ids, handled, redelivered>>

\* Database::insert_timeline_event: id 0 takes the next id, then rw.insert
insert_timeline_event(event, io_ok) ==
    /\ timeline_ids' = timeline_ids + 1
    /\ timeline' = IF io_ok THEN timeline \cup {[event EXCEPT !.id = timeline_ids]} ELSE timeline

\* A faulty loop: a failed insert returns the error from the handler, which
\* drops the users not yet served and the global event
ListenerUserStopping ==
    /\ listener.pc = "users"
    /\ listener.todo # <<>>
    /\ \E io_ok \in BOOLEAN :
          LET event == TimelineEvent(0, listener.package, Some(Head(listener.todo)),
                                     listener.version.version)
          IN  /\ insert_timeline_event(event, io_ok)
              /\ IF io_ok
                 THEN /\ broadcast([event EXCEPT !.id = timeline_ids])
                      /\ listener' = [listener EXCEPT !.todo = Tail(@)]
                 ELSE /\ UNCHANGED castVars
                      /\ listener' = IdleListener
    /\ UNCHANGED <<subscriptions, handled, redelivered>>

\* A faulty loop: the event is broadcast whatever insert_timeline_event returned
ListenerUserPublishing ==
    /\ listener.pc = "users"
    /\ listener.todo # <<>>
    /\ \E io_ok \in BOOLEAN :
          LET event == TimelineEvent(0, listener.package, Some(Head(listener.todo)),
                                     listener.version.version)
          IN  /\ insert_timeline_event(event, io_ok)
              /\ broadcast([event EXCEPT !.id = timeline_ids])
              /\ listener' = [listener EXCEPT
                                 !.todo = Tail(@), !.clean = @ /\ io_ok,
                                 !.failed = IF io_ok THEN @ ELSE @ \cup {Head(listener.todo)}]
    /\ UNCHANGED <<subscriptions, handled, redelivered>>

\* One turn of the loop over the subscribed users: store the personal event
\* and broadcast the stored event; a failed insert is logged
ListenerUser ==
    /\ listener.pc = "users"
    /\ listener.todo # <<>>
    /\ \E io_ok \in BOOLEAN :
          LET event == TimelineEvent(0, listener.package, Some(Head(listener.todo)),
                                     listener.version.version)
          IN  /\ insert_timeline_event(event, io_ok)
              /\ IF io_ok
                 THEN broadcast([event EXCEPT !.id = timeline_ids])
                 ELSE UNCHANGED castVars
              /\ listener' = [listener EXCEPT
                                 !.todo = Tail(@), !.clean = @ /\ io_ok,
                                 !.failed = IF io_ok THEN @ ELSE @ \cup {Head(listener.todo)}]
    /\ UNCHANGED <<subscriptions, handled, redelivered>>

\* After the loop: the global event is built and broadcast, not stored
ListenerGlobal ==
    /\ listener.pc = "users"
    /\ listener.todo = <<>>
    /\ broadcast(TimelineEvent(0, listener.package, None, listener.version.version))
    /\ handled' = Append(handled, [version |-> listener.version, users |-> listener.users,
                                   clean |-> listener.clean, failed |-> listener.failed])
    /\ listener' = [listener EXCEPT !.pc = "recv"]
    /\ UNCHANGED <<subscriptions, timeline, timeline_ids, redelivered>>

\* The feed hands the listener a notification it has handled before
Redeliver ==
    /\ redelivered < MaxRedeliveries
    /\ \E i \in 1..Len(handled) :
          feed' = Append(feed, Notification("Insert", handled[i].version))
    /\ redelivered' = redelivered + 1
    /\ UNCHANGED <<packages, versions, package_ids, version_ids, watching>>
    /\ UNCHANGED <<subscriptions, timeline, timeline_ids, listener, handled>>

--------------------------------------------------------------------------
(* fossdb server: NotificationProcessor (notifications.rs) *)

\* The processor between two calls of process_new_releases
IdleMailer == [pc |-> "idle", pending |-> <<>>]

MailInit ==
    /\ notified = {}
    /\ mailer = IdleMailer
    /\ outbox = <<>>
    /\ runs = 0

\* A scan of the primary key returns the rows by ascending id
RECURSIVE EventsById(_)
EventsById(events) ==
    IF events = {} THEN <<>>
    ELSE LET first == CHOOSE e \in events : \A o \in events : e.id <= o.id
         IN  <<first>> \o EventsById(events \ {first})

\* Database::get_pending_notifications: the events of a user whose
\* notified_at is unset (every event the model stores is a NewRelease)
get_pending_notifications ==
    EventsById({e \in timeline : e.user_id # None /\ e.id \notin notified})

\* A faulty processor: the event is marked whatever the send returned
marks_always(sent_ok, update_ok) == update_ok

\* notified_at is written when the send returned Ok(()) and
\* update_timeline_event committed
marks(sent_ok, update_ok) == sent_ok /\ update_ok

\* The loop of main.rs calls process_new_releases, which reads the pending
\* events; a failed read returns the error and no pending event returns Ok(())
ProcessNewReleases ==
    /\ mailer.pc = "idle"
    /\ runs < MaxRuns
    /\ runs' = runs + 1
    /\ \E io_ok \in BOOLEAN :
          mailer' = IF io_ok /\ get_pending_notifications # <<>>
                    THEN [pc |-> "loop", pending |-> get_pending_notifications]
                    ELSE IdleMailer
    /\ UNCHANGED <<notified, outbox>>

\* One turn of the loop over the pending events. `ready`: the user is found
\* and has notifications enabled and the package is found; otherwise the
\* event is skipped. Then the email is sent and, if that succeeded, the
\* event is written back with notified_at set; a failure of either is logged
SendNotification ==
    /\ mailer.pc = "loop"
    /\ LET event == Head(mailer.pending)
           rest == Tail(mailer.pending) IN
        /\ mailer' = IF rest = <<>> THEN IdleMailer ELSE [mailer EXCEPT !.pending = rest]
        /\ \E ready \in BOOLEAN, sent_ok \in BOOLEAN, update_ok \in BOOLEAN :
              IF ~ready
              THEN UNCHANGED <<notified, outbox>>
              ELSE /\ outbox' = Append(outbox, [event |-> event.id, sent |-> sent_ok])
                   /\ notified' = IF marks(sent_ok, update_ok)
                                   THEN notified \cup {event.id} ELSE notified
    /\ UNCHANGED runs

--------------------------------------------------------------------------
(* fossdb server: AdaptiveRateLimitedClient (client.rs) *)

Callers == 1..NumCallers

\* AdaptiveConfig::default()
DefaultConfig == [initial_rate |-> 10, min_rate |-> 1, max_rate |-> 100]
\* The configuration the libraries.io collector builds
LibrariesIoConfig == [initial_rate |-> 30, min_rate |-> 6, max_rate |-> 60]
\* A configuration with a floor of zero
ZeroFloorConfig == [initial_rate |-> 1, min_rate |-> 0, max_rate |-> 2]
\* A configuration whose ceiling times 11 does not fit in a u32
HighConfig == [initial_rate |-> 390451573, min_rate |-> 390451570, max_rate |-> 390451580]

Configs == {DefaultConfig, LibrariesIoConfig, ZeroFloorConfig, HighConfig}

\* Status codes around every boundary of the match in report_result
Statuses == {199, 200, 299, 300, 404, 428, 429, 430, 499, 500, 599, 600}

Max(a, b) == IF a >= b THEN a ELSE b
Min(a, b) == IF a <= b THEN a ELSE b

NoReport == [status |-> 0, old |-> 0, new |-> 0, panicked |-> FALSE,
             streak |-> 0, start |-> 0]

\* The arm of the match in report_result that a status code takes
arm(status_code) ==
    IF status_code = 429 THEN "429"
    ELSE IF status_code \in 500..599 THEN "5xx"
    ELSE IF status_code \in 200..299 THEN "2xx"
    ELSE "other"

\* history: the record of a report_result call that found old_rate and left new
Report(status_code, old_rate, new, panicked) ==
    LET continues == lastReport # NoReport /\ arm(lastReport.status) = arm(status_code) IN
    [status |-> status_code, old |-> old_rate, new |-> new, panicked |-> panicked,
     streak |-> IF continues THEN Min(lastReport.streak + 1, MaxStreak) ELSE 1,
     start |-> IF continues THEN lastReport.start ELSE old_rate]

\* AdaptiveRateLimitedClient::new with one configuration, in one build
RateInitWith(cfg, checks) ==
    /\ config = cfg
    /\ overflow_checks = checks
    /\ current_rate = cfg.initial_rate
    /\ quota = cfg.initial_rate
    /\ callers = [k \in Callers |-> "idle"]
    /\ lastReport = NoReport

\* A u32 is held as two 16-bit limbs, so that a product beyond 2^31 is computed
Limb == 65536

\* old_rate * k in u32: the limbs of the wrapped product, and whether it wrapped
mul_u32(a, k) ==
    LET lo == (a % Limb) * k
        hi == (a \div Limb) * k + lo \div Limb
    IN  [lo |-> lo % Limb, hi |-> hi % Limb, overflow |-> hi >= Limb]

\* product / 10 in u32
div10_u32(p) == (p.hi \div 10) * Limb + ((p.hi % 10) * Limb + p.lo) \div 10

\* A faulty match of report_result: no floor and no ceiling
new_rate_unclamped(status_code, old_rate) ==
    IF status_code = 429 THEN old_rate \div 2
    ELSE IF status_code \in 500..599 THEN div10_u32(mul_u32(old_rate, 9))
    ELSE IF status_code \in 200..299 THEN div10_u32(mul_u32(old_rate, 11))
    ELSE old_rate

\* A faulty match of report_result: a 429 takes the arm of the server errors
new_rate_429_as_5xx(status_code, old_rate) ==
    IF status_code = 429 \/ status_code \in 500..599
    THEN Max(div10_u32(mul_u32(old_rate, 9)), config.min_rate)
    ELSE IF status_code \in 200..299
         THEN Min(div10_u32(mul_u32(old_rate, 11)), config.max_rate)
    ELSE old_rate

\* The match of report_result on the status code, in a build that wraps
new_rate(status_code, old_rate) ==
    IF status_code = 429 THEN Max(old_rate \div 2, config.min_rate)
    ELSE IF status_code \in 500..599
         THEN Max(div10_u32(mul_u32(old_rate, 9)), config.min_rate)
    ELSE IF status_code \in 200..299
         THEN Min(div10_u32(mul_u32(old_rate, 11)), config.max_rate)
    ELSE old_rate

\* The multiplication of the match arm overflows a u32
overflows(status_code, old_rate) ==
    \/ status_code \in 500..599 /\ mul_u32(old_rate, 9).overflow
    \/ status_code \in 200..299 /\ mul_u32(old_rate, 11).overflow

\* A faulty lock: a reader is admitted while a writer waits
GetStartUnfair(k) ==
    /\ callers[k] \in {"idle", "failed"}
    /\ callers' = [callers EXCEPT ![k] = "wait"]
    /\ UNCHANGED <<config, overflow_checks, current_rate, quota, lastReport>>

\* get: limiter.read().await; a reader queues behind a waiting writer
GetStart(k) ==
    /\ callers[k] \in {"idle", "failed"}
    /\ \A j \in Callers : callers[j] # "report"
    /\ callers' = [callers EXCEPT ![k] = "wait"]
    /\ UNCHANGED <<config, overflow_checks, current_rate, quota, lastReport>>

\* get: until_ready() returns and the read guard is dropped
UntilReady(k) ==
    /\ callers[k] = "wait"
    /\ callers' = [callers EXCEPT ![k] = "send"]
    /\ UNCHANGED <<config, overflow_checks, current_rate, quota, lastReport>>

\* A faulty get: a failed send is reported like a server error
SendFailsReported(k) ==
    /\ callers[k] = "send"
    /\ callers' = [callers EXCEPT ![k] = "failed"]
    /\ current_rate' = new_rate(500, current_rate)
    /\ quota' = current_rate'
    /\ UNCHANGED <<config, overflow_checks, lastReport>>

\* get: send() fails and `?` returns the error
SendFails(k) ==
    /\ callers[k] = "send"
    /\ callers' = [callers EXCEPT ![k] = "failed"]
    /\ UNCHANGED <<config, overflow_checks, current_rate, quota, lastReport>>

\* get: a response arrives; report_result takes the write lock of
\* current_rate, computes new_rate and, if it differs, stores it and builds
\* the quota. An overflowing product panics in a build with overflow checks,
\* NonZeroU32::new(0).unwrap() panics in every build
Respond(k, status_code) ==
    /\ callers[k] = "send"
    /\ \A j \in Callers : callers[j] # "report"
    /\ LET old_rate == current_rate
           new == new_rate(status_code, old_rate)
       IN  IF overflow_checks /\ overflows(status_code, old_rate)
           THEN /\ callers' = [callers EXCEPT ![k] = "panicked"]
                /\ lastReport' = Report(status_code, old_rate, old_rate, TRUE)
                /\ UNCHANGED current_rate
           ELSE /\ current_rate' = new
                /\ callers' = [callers EXCEPT ![k] = IF new = old_rate THEN "idle"
                                                     ELSE IF new = 0 THEN "panicked"
                                                     ELSE "report"]
                /\ lastReport' = Report(status_code, old_rate, new, new # old_rate /\ new = 0)
    /\ UNCHANGED <<config, overflow_checks, quota>>

\* report_result: limiter.write().await, granted once no reader holds the
\* lock, then *limiter = RateLimiter::direct(quota); both guards are dropped
SwapLimiter(k) ==
    /\ callers[k] = "report"
    /\ \A j \in Callers : callers[j] # "wait"
    /\ quota' = current_rate
    /\ callers' = [callers EXCEPT ![k] = "idle"]
    /\ UNCHANGED <<config, overflow_checks, current_rate, lastReport>>

--------------------------------------------------------------------------
(* fossdb server: report_result step by step (client.rs) *)

NotHeld == [status |-> 0, old |-> 0]

ReportInit ==
    /\ held = [k \in Callers |-> NotHeld]
    /\ applied = <<>>

\* Status codes of the four arms of the match
ReportStatuses == {200, 404, 429, 500}

\* A faulty lock: a guard that excludes nobody
rate_lock_shared == TRUE

\* self.current_rate.write().await is granted: no other call holds the
\* guard, which report_result keeps until it returns
rate_lock_free == \A j \in Callers : callers[j] \notin {"locked", "report"}

\* report_result: the write guard of current_rate is taken and old_rate read
ReportLock(k, status_code) ==
    /\ callers[k] = "send"
    /\ Len(applied) + Cardinality({j \in Callers : callers[j] = "locked"}) < MaxReports
    /\ rate_lock_free
    /\ callers' = [callers EXCEPT ![k] = "locked"]
    /\ held' = [held EXCEPT ![k] = [status |-> status_code, old |-> current_rate]]
    /\ UNCHANGED <<config, overflow_checks, current_rate, quota, lastReport, applied>>

\* report_result: new_rate is computed from old_rate and, if it differs,
\* stored through the guard; the limiter is replaced next
ReportStore(k) ==
    /\ callers[k] = "locked"
    /\ LET new == new_rate(held[k].status, held[k].old) IN
        /\ current_rate' = new
        /\ callers' = [callers EXCEPT ![k] = IF new = held[k].old THEN "idle" ELSE "report"]
    /\ held' = [held EXCEPT ![k] = NotHeld]
    /\ applied' = Append(applied, held[k].status)
    /\ UNCHANGED <<config, overflow_checks, quota, lastReport>>

--------------------------------------------------------------------------
(* fossdb server: IdGenerator and Database::new (id_generator.rs, db.rs) *)

\* Threads inside Database::insert_timeline_event
Inserters == 1..NumInserters

\* No call of insert_timeline_event has run since startup
IdInit ==
    /\ id_calls = [k \in Inserters |-> 0]
    /\ issued = <<>>
    /\ at_start = {}

\* A TimelineEvent row an earlier run of the server stored
StoredEvent(id) == TimelineEvent(id, SomePackage, None, Version100.num)

\* Database::new, the scan of one table: the greatest id of the rows, where
\* a row whose read fails counts as 0 (unwrap_or(0)), and 0 for no rows
max_id(ids, unread) ==
    LET seen == {IF id \in unread THEN 0 ELSE id : id \in ids} IN
    IF seen = {} THEN 0 ELSE CHOOSE m \in seen : \A n \in seen : n <= m

\* IdGenerator::new(max_timeline_id + 1) over a table an earlier run filled;
\* the read of any row may fail. A u64 counter does not wrap within the bounds
RestartInit ==
    /\ CoordInit /\ StoreInit /\ CollectInit /\ CastInit /\ MailInit /\ ReportInit
    /\ RateInitWith(DefaultConfig, TRUE) /\ GateInit
    /\ subscriptions = [u \in Users |-> {}]
    /\ listener = IdleListener
    /\ handled = <<>>
    /\ redelivered = 0
    /\ id_calls = [k \in Inserters |-> 0]
    /\ issued = <<>>
    /\ \E ids \in SUBSET (1..MaxStoredId) : \E unread \in SUBSET ids :
        /\ timeline = {StoredEvent(id) : id \in ids}
        /\ at_start = ids
        /\ timeline_ids = max_id(ids, unread) + 1

\* insert_timeline_event with event.id == 0: timeline_ids.next(), one
\* fetch_add(1, SeqCst) that returns the counter's value before the add
TakeId(k) ==
    /\ id_calls[k] = 0
    /\ Len(issued) < MaxIssued
    /\ id_calls' = [id_calls EXCEPT ![k] = timeline_ids]
    /\ issued' = Append(issued, timeline_ids)
    /\ timeline_ids' = timeline_ids + 1
    /\ UNCHANGED <<subscriptions, timeline, listener, handled, redelivered, at_start>>

\* insert_timeline_event, the transaction: rw.insert and commit; the insert
\* of a primary key that is stored fails, as does a failing transaction
CommitEvent(k) ==
    /\ id_calls[k] # 0
    /\ \E io_ok \in BOOLEAN :
        timeline' = IF io_ok /\ \A e \in timeline : e.id # id_calls[k]
                    THEN timeline \cup {StoredEvent(id_calls[k])}
                    ELSE timeline
    /\ id_calls' = [id_calls EXCEPT ![k] = 0]
    /\ UNCHANGED <<subscriptions, timeline_ids, listener, handled, redelivered, issued, at_start>>

--------------------------------------------------------------------------
(* Specifications *)

serverVars == <<storeVars, collectVars, listenVars, castVars, connVars, rateVars, gateVars, mailVars, reportVars, idVars>>

CoordNext ==
    \/ \E t \in Tasks, p \in ScrapedPackages : GetPackageLock(t, p) /\ UNCHANGED serverVars
    \/ \E t \in Tasks : Acquire(t) /\ UNCHANGED serverVars
    \/ \E t \in Tasks : CheckExisting(t) /\ UNCHANGED serverVars
    \/ \E t \in Tasks : SavePackageRow(t) /\ UNCHANGED serverVars
    \/ \E t \in Tasks : SaveVersionRow(t) /\ UNCHANGED serverVars
    \/ CleanupUnusedLocks /\ UNCHANGED serverVars

notCollect == <<coordVars, listenVars, castVars, connVars, rateVars, gateVars, mailVars, reportVars, idVars>>

CollectNext ==
    \/ \E c \in Collectors : StartCollect(c) /\ UNCHANGED notCollect
    \/ \E c \in Collectors : EndCollect(c) /\ UNCHANGED notCollect
    \/ \E c \in Collectors : \E cand \in CandidatesOf(c) :
          LookupPackage(c, cand) /\ UNCHANGED notCollect
    \/ \E c \in Collectors : ReadExistingVersions(c) /\ UNCHANGED notCollect
    \/ \E c \in Collectors : InsertNextVersion(c) /\ UNCHANGED notCollect
    \/ \E c \in Collectors : SkipEmptyVersions(c) /\ UNCHANGED notCollect
    \/ \E c \in Collectors : UpdateTimestamp(c) /\ UNCHANGED notCollect
    \/ \E c \in Collectors : InsertNewPackage(c) /\ UNCHANGED notCollect

\* The collectors against registries whose listing may fail
PollNext ==
    \/ CollectNext
    \/ \E c \in Collectors : StartCollectFails(c) /\ UNCHANGED notCollect

VersionNums == {Version100.num, Version110.num}

ListenNext ==
    \/ SpawnListener /\ UNCHANGED <<coordVars, collectVars, listenVars, castVars, connVars, rateVars, gateVars, mailVars, reportVars, idVars>>
    \/ \E name \in PackageNames :
          InsertPackage(name) /\ UNCHANGED <<coordVars, collectVars, listenVars, castVars, connVars, rateVars, gateVars, mailVars, reportVars, idVars>>
    \/ \E id \in 1..MaxInserts, version \in VersionNums :
          InsertVersion(id, version)
          /\ UNCHANGED <<coordVars, collectVars, listenVars, castVars, connVars, rateVars, gateVars, mailVars, reportVars, idVars>>
    \/ \E u \in Users, name \in PackageNames :
          AddSubscription(u, name)
          /\ UNCHANGED <<coordVars, storeVars, collectVars, castVars, connVars, rateVars, gateVars, mailVars, reportVars, idVars>>
    \/ ListenerRecv /\ UNCHANGED <<coordVars, collectVars, castVars, connVars, rateVars, gateVars, mailVars, reportVars, idVars>>
    \/ ListenerUser
       /\ UNCHANGED <<coordVars, storeVars, collectVars, connVars, rateVars, gateVars, mailVars, reportVars, idVars>>
    \/ ListenerGlobal /\ UNCHANGED <<coordVars, storeVars, collectVars, connVars, rateVars, gateVars, mailVars, reportVars, idVars>>

\* The listener with users who switch the notifications of a subscription
NotifyNext ==
    \/ ListenNext
    \/ \E u \in Users, name \in PackageNames, enabled \in BOOLEAN :
          UpdatePackageNotification(u, name, enabled)
          /\ UNCHANGED <<coordVars, storeVars, collectVars, castVars, connVars, rateVars, gateVars, mailVars, reportVars, idVars>>

RedeliverNext ==
    \/ ListenNext
    \/ Redeliver /\ UNCHANGED <<coordVars, collectVars, castVars, connVars, rateVars, gateVars, mailVars, reportVars, idVars>>

notWs == <<coordVars, storeVars, collectVars, listenVars, rateVars, gateVars, mailVars, reportVars, idVars>>

WsNext ==
    \/ \E event \in WsEvents : Broadcast(event) /\ UNCHANGED notWs
    \/ \E c \in Conns : WsConnect(c) /\ UNCHANGED notWs
    \/ \E c \in Conns, v \in Verified : ClientAuth(c, v) /\ UNCHANGED notWs
    \/ \E c \in Conns : WsRecvEvent(c) /\ UNCHANGED notWs
    \/ \E c \in Conns : WsRecvLagged(c) /\ UNCHANGED notWs
    \/ \E c \in Conns : WsTakeAuth(c) /\ UNCHANGED notWs
    \/ \E c \in Conns : WsPong(c) /\ UNCHANGED notWs
    \/ \E c \in Conns : WsKeepalive(c) /\ UNCHANGED notWs
    \/ \E c \in Conns : WsClose(c) /\ UNCHANGED notWs

\* From the store to a client: inserts, the listener, the broadcaster and one
\* connection of one subscriber, who may authenticate on it or not
notStore == <<coordVars, collectVars, listenVars, castVars, connVars, rateVars, gateVars, mailVars, reportVars, idVars>>
notListen == <<coordVars, storeVars, collectVars, castVars, connVars, rateVars, gateVars, mailVars, reportVars, idVars>>
Subscriber == 1
SubscriberToken == [ok |-> TRUE, sub |-> "1"]
SubscriberConn == 1

PipelineNext ==
    \/ SpawnListener /\ UNCHANGED notStore
    \/ \E name \in PackageNames : InsertPackage(name) /\ UNCHANGED notStore
    \/ \E id \in 1..MaxInserts, version \in VersionNums :
          InsertVersion(id, version) /\ UNCHANGED notStore
    \/ \E name \in PackageNames : AddSubscription(Subscriber, name) /\ UNCHANGED notListen
    \/ ListenerRecv /\ UNCHANGED <<coordVars, collectVars, castVars, connVars, rateVars, gateVars, mailVars, reportVars, idVars>>
    \/ ListenerUser
       /\ UNCHANGED <<coordVars, storeVars, collectVars, connVars, rateVars, gateVars, mailVars, reportVars, idVars>>
    \/ ListenerGlobal
       /\ UNCHANGED <<coordVars, storeVars, collectVars, connVars, rateVars, gateVars, mailVars, reportVars, idVars>>
    \/ WsConnect(SubscriberConn) /\ UNCHANGED notWs
    \/ ClientAuth(SubscriberConn, SubscriberToken) /\ UNCHANGED notWs
    \/ WsTakeAuth(SubscriberConn) /\ UNCHANGED notWs
    \/ WsRecvEvent(SubscriberConn) /\ UNCHANGED notWs
    \/ WsRecvLagged(SubscriberConn) /\ UNCHANGED notWs

notRate == <<coordVars, storeVars, collectVars, listenVars, castVars, connVars, gateVars, mailVars, reportVars, idVars>>

RateNext ==
    \/ \E k \in Callers : GetStart(k) /\ UNCHANGED notRate
    \/ \E k \in Callers : UntilReady(k) /\ UNCHANGED notRate
    \/ \E k \in Callers : SendFails(k) /\ UNCHANGED notRate
    \/ \E k \in Callers, status_code \in Statuses : Respond(k, status_code) /\ UNCHANGED notRate
    \/ \E k \in Callers : SwapLimiter(k) /\ UNCHANGED notRate

notReport == <<coordVars, storeVars, collectVars, listenVars, castVars, connVars, gateVars, mailVars, idVars>>

\* Concurrent get calls whose report_result takes its steps one by one
ReportNext ==
    \/ \E k \in Callers : GetStart(k) /\ UNCHANGED notRate
    \/ \E k \in Callers : UntilReady(k) /\ UNCHANGED notRate
    \/ \E k \in Callers : SendFails(k) /\ UNCHANGED notRate
    \/ \E k \in Callers, status_code \in ReportStatuses :
          ReportLock(k, status_code) /\ UNCHANGED notReport
    \/ \E k \in Callers : ReportStore(k) /\ UNCHANGED notReport
    \/ \E k \in Callers : SwapLimiter(k) /\ UNCHANGED notRate

\* The store after spawn_package_version_listener registered the watch,
\* before any write
WatchedStoreInit ==
    /\ packages = {}
    /\ versions = {}
    /\ package_ids = 1
    /\ version_ids = 1
    /\ watching = TRUE
    /\ feed = <<>>

WatchedInit ==
    /\ CoordInit /\ WatchedStoreInit /\ CollectInit /\ CastInit /\ ListenInit /\ MailInit
    /\ ReportInit /\ IdInit /\ RateInitWith(DefaultConfig, TRUE) /\ GateInit

\* The listener with one subscriber, fed from the first write on, and a feed
\* that may be disconnected
WatchedNext ==
    \/ \E name \in PackageNames : InsertPackage(name) /\ UNCHANGED notStore
    \/ \E id \in 1..MaxInserts, version \in VersionNums :
          InsertVersion(id, version) /\ UNCHANGED notStore
    \/ \E name \in PackageNames : AddSubscription(Subscriber, name) /\ UNCHANGED notListen
    \/ FeedDisconnect /\ UNCHANGED notStore
    \/ ListenerStop /\ UNCHANGED <<coordVars, collectVars, castVars, connVars, rateVars, gateVars, mailVars, reportVars, idVars>>
    \/ ListenerRecv /\ UNCHANGED <<coordVars, collectVars, castVars, connVars, rateVars, gateVars, mailVars, reportVars, idVars>>
    \/ ListenerUser
       /\ UNCHANGED <<coordVars, storeVars, collectVars, connVars, rateVars, gateVars, mailVars, reportVars, idVars>>
    \/ ListenerGlobal
       /\ UNCHANGED <<coordVars, storeVars, collectVars, connVars, rateVars, gateVars, mailVars, reportVars, idVars>>

\* Everything but the rate-limited client after construction
RestInit == CoordInit /\ StoreInit /\ CollectInit /\ CastInit /\ ListenInit /\ MailInit /\ ReportInit /\ IdInit

\* The state after construction, the client built with_defaults
Init == RestInit /\ RateInitWith(DefaultConfig, TRUE) /\ GateInit

\* The same with a license string at the gate
GateStart == RestInit /\ RateInitWith(DefaultConfig, TRUE) /\ LicenseInit

LicenseNext == CheckLicense /\ UNCHANGED <<coordVars, storeVars, collectVars, listenVars, castVars, connVars, rateVars, mailVars, reportVars, idVars>>

\* The same with the client built from any of the configurations, in a
\* build with or without overflow checks
RateInit == RestInit /\ GateInit /\ \E cfg \in Configs, checks \in BOOLEAN : RateInitWith(cfg, checks)

\* The worker's coordinator alone
SpecCoord == Init /\ [][CoordNext]_vars

\* One spawned save_package call takes a step
TaskStep(t) ==
    (Acquire(t) \/ CheckExisting(t) \/ SavePackageRow(t) \/ SaveVersionRow(t))
        /\ UNCHANGED serverVars

\* The same under the tokio scheduler, which polls every task that can run,
\* and a database whose every request is answered
SpecCoordFair == SpecCoord /\ \A t \in Tasks : WF_vars(TaskStep(t))

\* Clones of one client built with_defaults, report_result step by step
SpecReport == Init /\ [][ReportNext]_vars

notIds == <<coordVars, storeVars, collectVars, castVars, connVars, rateVars, gateVars, mailVars, reportVars>>

\* insert_timeline_event called from several threads after a restart
IdsNext ==
    \/ \E k \in Inserters : TakeId(k) /\ UNCHANGED notIds
    \/ \E k \in Inserters : CommitEvent(k) /\ UNCHANGED notIds

SpecIds == RestartInit /\ [][IdsNext]_vars

\* A step a caller takes without waiting for a response: the permit wait
\* ends, the rate is stored, the limiter is replaced
LockStep(k) ==
    (UntilReady(k) \/ ReportStore(k) \/ SwapLimiter(k)) /\ UNCHANGED notReport

\* The same under the tokio scheduler, with a limiter whose permit wait ends
\* and RwLocks that grant a request once nothing excludes it
SpecReportFair ==
    SpecReport /\ \A k \in Callers :
        /\ WF_vars(UntilReady(k) /\ UNCHANGED notRate)
        /\ WF_vars(ReportStore(k) /\ UNCHANGED notReport)
        /\ WF_vars(SwapLimiter(k) /\ UNCHANGED notRate)

\* The server's collectors against the store, no listener registered
SpecCollect == Init /\ [][CollectNext]_vars

\* The same with registries whose listing may fail
SpecPoll == Init /\ [][PollNext]_vars

\* The store, the subscriptions and the PackageVersion listener
SpecListen == Init /\ [][ListenNext]_vars

\* The same with users who switch the notifications of their subscriptions
SpecNotify == Init /\ [][NotifyNext]_vars

\* The listener publishing to live connections
SpecPipeline == Init /\ [][PipelineNext]_vars

\* The listener with one subscriber and a feed that reports updates and
\* removals of rows and may be disconnected
FeedNext ==
    \/ SpawnListener /\ UNCHANGED notStore
    \/ \E name \in PackageNames : InsertPackage(name) /\ UNCHANGED notStore
    \/ \E id \in 1..MaxInserts, version \in VersionNums :
          InsertVersion(id, version) /\ UNCHANGED notStore
    \/ \E name \in PackageNames :
          AddSubscription(Subscriber, name) /\ UNCHANGED notListen
    \/ \E kind \in {"Update", "Delete"}, row \in versions :
          ChangeVersion(kind, row) /\ UNCHANGED notStore
    \/ FeedDisconnect /\ UNCHANGED notStore
    \/ ListenerStop /\ UNCHANGED <<coordVars, collectVars, castVars, connVars, rateVars, gateVars, mailVars, reportVars, idVars>>
    \/ ListenerRecv /\ UNCHANGED <<coordVars, collectVars, castVars, connVars, rateVars, gateVars, mailVars, reportVars, idVars>>
    \/ ListenerUser
       /\ UNCHANGED <<coordVars, storeVars, collectVars, connVars, rateVars, gateVars, mailVars, reportVars, idVars>>
    \/ ListenerGlobal
       /\ UNCHANGED <<coordVars, storeVars, collectVars, connVars, rateVars, gateVars, mailVars, reportVars, idVars>>

notMail == <<coordVars, storeVars, collectVars, listenVars, castVars, connVars, rateVars, gateVars, reportVars, idVars>>

\* The listener with one subscriber and the notification processor
MailNext ==
    \/ SpawnListener /\ UNCHANGED notStore
    \/ \E name \in PackageNames : InsertPackage(name) /\ UNCHANGED notStore
    \/ \E id \in 1..MaxInserts, version \in VersionNums :
          InsertVersion(id, version) /\ UNCHANGED notStore
    \/ \E name \in PackageNames : AddSubscription(Subscriber, name) /\ UNCHANGED notListen
    \/ ListenerRecv /\ UNCHANGED <<coordVars, collectVars, castVars, connVars, rateVars, gateVars, mailVars, reportVars, idVars>>
    \/ ListenerUser
       /\ UNCHANGED <<coordVars, storeVars, collectVars, connVars, rateVars, gateVars, mailVars, reportVars, idVars>>
    \/ ListenerGlobal
       /\ UNCHANGED <<coordVars, storeVars, collectVars, connVars, rateVars, gateVars, mailVars, reportVars, idVars>>
    \/ ProcessNewReleases /\ UNCHANGED notMail
    \/ SendNotification /\ UNCHANGED notMail

\* The listener's events under the notification processor
SpecMail == Init /\ [][MailNext]_vars

\* The listener with one subscriber and callers of insert_version that name
\* any package id
OrphanNext ==
    \/ SpawnListener /\ UNCHANGED notStore
    \/ \E name \in PackageNames : InsertPackage(name) /\ UNCHANGED notStore
    \/ \E id \in 1..MaxInserts, version \in VersionNums :
          InsertVersion(id, version) /\ UNCHANGED notStore
    \/ \E id \in 1..(MaxInserts + 1), version \in VersionNums :
          InsertOrphanVersion(id, version) /\ UNCHANGED notStore
    \/ \E name \in PackageNames : AddSubscription(Subscriber, name) /\ UNCHANGED notListen
    \/ ListenerRecv /\ UNCHANGED <<coordVars, collectVars, castVars, connVars, rateVars, gateVars, mailVars, reportVars, idVars>>
    \/ ListenerUser
       /\ UNCHANGED <<coordVars, storeVars, collectVars, connVars, rateVars, gateVars, mailVars, reportVars, idVars>>
    \/ ListenerGlobal
       /\ UNCHANGED <<coordVars, storeVars, collectVars, connVars, rateVars, gateVars, mailVars, reportVars, idVars>>

\* The listener fed by inserts that may name a missing package
SpecOrphan == Init /\ [][OrphanNext]_vars

\* The listener registered before the first write
SpecWatched == WatchedInit /\ [][WatchedNext]_vars

\* The same with a feed that reports every kind of change and may end
SpecFeed == Init /\ [][FeedNext]_vars

\* The same with a feed that may deliver a notification twice
SpecRedeliver == Init /\ [][RedeliverNext]_vars

\* The broadcaster and the WebSocket connections
SpecWs == Init /\ [][WsNext]_vars

\* One connection and a publisher that runs further ahead of it
LagConn == 1

LagBroadcast(event) ==
    /\ Len(published) < MaxLagBroadcasts
    /\ broadcast(event)
    /\ UNCHANGED connVars

LagNext ==
    \/ \E event \in WsEvents : LagBroadcast(event) /\ UNCHANGED notWs
    \/ WsConnect(LagConn) /\ UNCHANGED notWs
    \/ \E v \in Verified : ClientAuth(LagConn, v) /\ UNCHANGED notWs
    \/ WsRecvEvent(LagConn) /\ UNCHANGED notWs
    \/ WsRecvLagged(LagConn) /\ UNCHANGED notWs
    \/ WsTakeAuth(LagConn) /\ UNCHANGED notWs
    \/ WsPong(LagConn) /\ UNCHANGED notWs
    \/ WsKeepalive(LagConn) /\ UNCHANGED notWs
    \/ WsClose(LagConn) /\ UNCHANGED notWs

SpecLag == Init /\ [][LagNext]_vars

\* The license gate on every license string of the model
SpecLicense == GateStart /\ [][LicenseNext]_vars

\* Callers of one AdaptiveRateLimitedClient
SpecRate == RateInit /\ [][RateNext]_vars

--------------------------------------------------------------------------
(* Claims about the PackageCoordinator *)

\* A save_package call is in flight for its name from the moment it holds the
\* permit until it returns
InFlight(t) == tasks[t].pc \in {"check", "save", "versions"}

\* C1: at most one save_package call per package name is between acquiring the
\* name's permit and releasing it, under any interleaving of save_package calls
\* and cleanup_unused_locks sweeps
C1_OneWriterPerName ==
    \A t1, t2 \in Tasks :
        (t1 # t2 /\ InFlight(t1) /\ InFlight(t2)) => tasks[t1].data.name # tasks[t2].data.name

\* C2: the store never holds two Package rows with the same name
C2_OnePackageRowPerName ==
    \A p1, p2 \in wPackages : p1.name = p2.name => p1 = p2

\* The tasks holding the permit of semaphore s
Holders(s) == {t \in Tasks : tasks[t].lock = s /\ InFlight(t)}

\* Every permit is with its semaphore or with exactly one running call
PermitsAccounted ==
    \A s \in SemIds : SemInUse(s) => permits[s] + Cardinality(Holders(s)) = 1

\* C16: a save_package call that has returned, however it returned, holds no
\* permit, and a call that asks for the permit of its name eventually has it
C16_PermitReleasedOnReturn ==
    /\ []PermitsAccounted
    /\ \A t \in Tasks : (tasks[t].pc \in {"acquire", "waiting"}) ~> InFlight(t)

\* A call holds the permit of a name for which one call has returned with an
\* error and another as skipped
C16_Witness ==
    \E t \in Tasks :
        /\ InFlight(t)
        /\ returned[tasks[t].data.name] = {"skipped", "error"}

C32_FailedLookupSkips ==
    [][\A t \in Tasks :
          (tasks[t].pc = "check" /\ tasks'[t].pc = "save") =>
              ~\E p \in wPackages : p.name = tasks[t].data.name]_vars

--------------------------------------------------------------------------
(* Claims about the collectors *)

\* C3: the store holds at most one PackageVersion row per (package id,
\* version string)
C3_OneRowPerPackageVersion ==
    \A v1, v2 \in versions :
        (v1.package_id = v2.package_id /\ v1.version = v2.version) => v1 = v2

\* C15: a lookup by the crates.io collector of a candidate whose package is
\* stored with an updated_at that is the candidate's or later writes nothing
\* and ends the work on the candidate: the loop goes to the next one
C15_UpToDateWritesNothing ==
    [][\A cand \in CrateCandidates :
          (/\ LookupPackage("crates.io", cand)
           /\ \E p \in packages : p.name = cand.name /\ cand.updated_at <= p.updated_at)
          => (/\ UNCHANGED <<packages, versions, package_ids, version_ids, feed>>
              /\ col'["crates.io"].pc = "idle"
              /\ col'["crates.io"].last \in {"up to date", "error"})]_vars

\* The crates.io collector skipped a candidate as up to date while its
\* package, with that very timestamp, and a version of it were stored
C15_Witness ==
    /\ col["crates.io"].pc = "idle"
    /\ col["crates.io"].last = "up to date"
    /\ polls = MaxPolls
    /\ \E p \in packages : p.updated_at = MaxTime /\ \E v \in versions : v.package_id = p.id

\* Some version the crates.io collector would save for the candidate has no
\* row under the package row p
MissingVersion(cand, p) ==
    \E k \in 1..Len(VersionsToSave("crates.io", cand)) :
        \A v \in versions :
            ~(v.package_id = p.id /\ v.version = VersionsToSave("crates.io", cand)[k].num)

\* C17: a poll that finds the package of its candidate stored with the
\* candidate's timestamp and without one of the candidate's versions does not
\* skip the candidate as up to date
C17_MissingVersionsInserted ==
    [][\A cand \in CrateCandidates :
          (/\ LookupPackage("crates.io", cand)
           /\ \E p \in packages : /\ p.name = cand.name
                                    /\ p.updated_at = cand.updated_at
                                    /\ MissingVersion(cand, p))
          => col'["crates.io"].last # "up to date"]_vars

\* C18: collect() does not return while candidates of its batch are left
C18_BatchGoesOn ==
    \A c \in Collectors : col[c].pc = "sleep" => col[c].left = 0

\* C19: a collector at work on a candidate that had no stored package of its
\* name when it was looked up, and whose license is missing or rejected,
\* writes no Package row and no PackageVersion row
C19_RejectedLeavesNoRow ==
    [][\A c \in Collectors :
          (/\ col[c].pc \in {"new", "existing", "diff", "insert_versions", "update_ts"}
           /\ col'[c] # col[c]
           /\ col[c].fresh
           /\ ~LicenseAccepted(col[c].cand.license))
          => (packages' = packages /\ versions' = versions)]_vars

\* Words that hold a keyword of the deny-list, and words that hold a keyword of
\* the allow-list and none of the deny-list
DenyWords == {<<"C", "C", "-", "B", "Y", "-", "N", "C">>, <<"p", "r", "o", "p", "r", "i", "e", "t", "a", "r", "y">>, <<"P", "R", "O", "P", "R", "I", "E", "T", "A", "R", "Y">>, <<"C", "o", "m", "m", "e", "r", "c", "i", "a", "l">>}
AllowWords == {<<"M", "I", "T">>, <<"A", "p", "a", "c", "h", "e", "-", "2", ".", "0">>}

\* C20: a license string holding a deny-list keyword is rejected, also when
\* it holds an allow-list keyword; a string holding no allow-list keyword, the
\* empty one included, is rejected; any other is accepted. So "MIT OR
\* Apache-2.0" is accepted and "CC-BY-NC", "" and "proprietary MIT" are rejected
C20_DenyListFirst ==
    LET denied == \E k \in 1..Len(gate.words) : gate.words[k] \in DenyWords
        allowed == \E k \in 1..Len(gate.words) : gate.words[k] \in AllowWords IN
    gate.verdict # "unchecked" =>
        /\ gate.verdict = IF denied THEN "non-free"
                          ELSE IF allowed THEN "free"
                          ELSE "non-free"
        /\ gate.words = <<<<"M", "I", "T">>, <<"O", "R">>, <<"A", "p", "a", "c", "h", "e", "-", "2", ".", "0">>>> => gate.verdict = "free"
        /\ gate.words = <<<<"C", "C", "-", "B", "Y", "-", "N", "C">>>> => gate.verdict = "non-free"
        /\ gate.words = <<>> => gate.verdict = "non-free"
        /\ gate.words = <<<<"p", "r", "o", "p", "r", "i", "e", "t", "a", "r", "y">>, <<"M", "I", "T">>>> => gate.verdict = "non-free"

\* "proprietary MIT" was put to the gate and rejected
C20_Witness ==
    /\ gate.words = <<<<"p", "r", "o", "p", "r", "i", "e", "t", "a", "r", "y">>, <<"M", "I", "T">>>>
    /\ gate.verdict = "non-free"

\* A step of collector c that ends with a failed fetch from the registry
FetchFailed(c) ==
    /\ col'[c].last # col[c].last
    /\ col'[c].last \in {"fetch error", "fetch failed"}

C38_VersionsHavePackage ==
    /\ [](\A v \in versions : \E p \in packages : p.id = v.package_id)
    /\ [][/\ \A v \in versions' \ versions : \E p \in packages : p.id = v.package_id
          /\ \A p \in packages : \E q \in packages' : q.id = p.id]_vars

\* The crates.io collector alone worked: it stored a package with a version
\* row in its first poll and in its second wrote a later timestamp into the
\* package row with update_package
C38_Witness ==
    /\ col["crates.io"].pc = "idle"
    /\ col["crates.io"].last = "inserted"
    /\ \A c \in Collectors \ {"crates.io"} : col[c] = SleepingCollector
    /\ polls = MaxPolls
    /\ package_ids = 2
    /\ \E p \in packages :
        /\ p.updated_at = MaxTime
        /\ \E v \in versions : v.package_id = p.id

--------------------------------------------------------------------------
(* Claims about the PackageVersion listener *)

\* The stored events of one owner for one (package id, version string)
StoredFor(owner, package_id, version) ==
    {e \in timeline : e.user_id = owner /\ e.package_id = package_id /\ e.version = version}

\* The broadcast calls of one owner for one (package id, version string)
PublishedFor(owner, package_id, version) ==
    {i \in 1..Len(published) : /\ published[i].user_id = owner
                               /\ published[i].package_id = package_id
                               /\ published[i].version = version}

\* C4: a notification handled without a store failure, about a version that
\* was inserted once, has exactly one stored and one published personal event
\* for each subscribed user, and exactly one stored and one published global
\* event
C4_EventsPerNotification ==
    \A i \in 1..Len(handled) :
        LET v == handled[i].version IN
        (/\ handled[i].clean
         /\ Cardinality({r \in versions : /\ r.package_id = v.package_id
                                          /\ r.version = v.version}) = 1) =>
            /\ \A k \in 1..Len(handled[i].users) :
                  /\ Cardinality(StoredFor(Some(handled[i].users[k]), v.package_id, v.version)) = 1
                  /\ Cardinality(PublishedFor(Some(handled[i].users[k]), v.package_id, v.version)) = 1
            /\ Cardinality(StoredFor(None, v.package_id, v.version)) = 1
            /\ Cardinality(PublishedFor(None, v.package_id, v.version)) = 1

\* C5: however often a notification is delivered, each owner (a user or the
\* global timeline) has no more stored events and no more published events
\* about a version than PackageVersion rows were inserted for it
C5_NoDuplicateOnRedelivery ==
    \A owner \in Owners, package_id \in 1..MaxInserts, version \in VersionNums :
        LET inserted == Cardinality({r \in versions : /\ r.package_id = package_id
                                                      /\ r.version = version}) IN
        /\ Cardinality(StoredFor(owner, package_id, version)) <= inserted
        /\ Cardinality(PublishedFor(owner, package_id, version)) <= inserted

\* User u has a subscription to the name with notifications enabled
EnabledFor(u, name) ==
    \E s \in subscriptions[u] : s.package_name = name /\ s.notifications_enabled

\* C22: the users the listener creates personal events for, as it computes
\* them on receiving a notification, each have at that moment a subscription
\* to the package's name with notifications enabled
C22_OnlyEnabledSubscribers ==
    [][(listener.pc = "recv" /\ listener'.pc = "users") =>
          \A k \in 1..Len(listener'.users) :
              EnabledFor(listener'.users[k], listener'.package.name)]_vars

\* C23: the users the listener creates personal events for on receiving the
\* notification of an insert were subscribed to the package when the version
\* was inserted: a user who subscribed after that gets no event for it
C23_NoEventForEarlierVersion ==
    [][(listener.pc = "recv" /\ listener'.pc = "users") =>
          \A k \in 1..Len(listener'.users) : listener'.users[k] \in Head(feed).subs]_vars

\* Every handled notification has a stored and a published personal event for
\* each of its users whose insert did not fail, and a published global event
OthersServed ==
    \A i \in 1..Len(handled) :
        LET v == handled[i].version IN
        /\ \A k \in 1..Len(handled[i].users) :
              handled[i].users[k] \notin handled[i].failed =>
                  /\ StoredFor(Some(handled[i].users[k]), v.package_id, v.version) # {}
                  /\ PublishedFor(Some(handled[i].users[k]), v.package_id, v.version) # {}
        /\ PublishedFor(None, v.package_id, v.version) # {}

\* C24: a failure storing the personal event of one subscriber leaves the
\* listener in its loop with the remaining subscribers to serve, and every
\* notification handled to the end has the events of the subscribers whose
\* insert did not fail, stored and published, and its global event published
C24_FailureDoesNotBlock ==
    /\ []OthersServed
    /\ [][(listener.pc = "users" /\ listener.todo # <<>> /\ timeline' = timeline
           /\ listener' # listener) =>
              (/\ listener'.pc = "users"
               /\ listener'.todo = Tail(listener.todo)
               /\ listener'.users = listener.users)]_vars

\* A notification for two subscribers was handled to the end: the insert for
\* the first failed, the second has its event stored and published, and the
\* global event was published
C24_Witness ==
    \E i \in 1..Len(handled) :
        /\ handled[i].users = <<1, 2>>
        /\ handled[i].failed = {1}
        /\ StoredFor(Some(2), handled[i].version.package_id, handled[i].version.version) # {}
        /\ PublishedFor(Some(2), handled[i].version.package_id, handled[i].version.version) # {}
        /\ PublishedFor(None, handled[i].version.package_id, handled[i].version.version) # {}

\* C27: when the change feed is disconnected the listener task stops: the
\* receive that finds the channel closed ends the loop, a stopped listener
\* stores and publishes no TimelineEvent any more, and insert_version still
\* commits rows while it is stopped.
C27_DisconnectStopsListener ==
    /\ [](listener.pc = "stopped" =>
            \A p \in packages, version \in VersionNums :
                version_ids <= MaxInserts =>
                    ENABLED (/\ insert_version(p.id, version, TRUE)
                             /\ versions' # versions))
    /\ [][(/\ listener.pc = "recv"
            /\ feed # <<>>
            /\ Head(feed).kind = "Disconnected"
            /\ feed' = Tail(feed)) => listener'.pc = "stopped"]_vars
    /\ [][listener.pc = "stopped" =>
             /\ listener' = listener
             /\ timeline' = timeline
             /\ published' = published
             /\ sent' = sent]_vars

\* The listener handled one insert, was stopped by the disconnect, and a row
\* committed afterwards has no TimelineEvent
C27_Witness ==
    /\ listener.pc = "stopped"
    /\ Len(handled) >= 1
    /\ \E row \in versions :
          /\ PublishedFor(None, row.package_id, row.version) = {}
          /\ StoredFor(None, row.package_id, row.version) = {}

\* C30: an Update or Delete notification of a PackageVersion row is taken by
\* the listener without creating a TimelineEvent and without publishing
\* anything; the listener is back at its receive with nothing pending.
C30_UpdateDeleteIgnored ==
    [][(/\ listener.pc = "recv"
        /\ feed # <<>>
        /\ Head(feed).kind \in {"Update", "Delete"}
        /\ feed' = Tail(feed)) =>
           /\ listener' = listener
           /\ timeline' = timeline
           /\ timeline_ids' = timeline_ids
           /\ published' = published
           /\ sent' = sent]_vars

\* One insert was handled, the row was removed afterwards, its Delete
\* notification was taken, and only the events of the insert exist
C30_Witness ==
    /\ watching
    /\ feed = <<>>
    /\ listener.pc = "recv"
    /\ version_ids = 2
    /\ versions = {}
    /\ Len(handled) = 1
    /\ handled[1].users = <<>>
    /\ Len(published) = 1
    /\ Cardinality(timeline) <= 1

\* The package a notification's row names is not stored
Orphan(row) == \A p \in packages : p.id # row.package_id

\* C31: the receive of an insert notification whose package_id no stored
\* package has leaves listener, timeline and broadcaster unchanged, and no
\* event stored or published names a package that is not stored.
C31_MissingPackageDropped ==
    /\ [](\A e \in timeline : \E p \in packages : p.id = e.package_id)
    /\ [](\A k \in 1..Len(published) : \E p \in packages : p.id = published[k].package_id)
    /\ [][(/\ listener.pc = "recv"
            /\ feed # <<>>
            /\ Head(feed).kind = "Insert"
            /\ Orphan(Head(feed).version)
            /\ feed' = Tail(feed)) =>
               /\ listener' = listener
               /\ timeline' = timeline
               /\ timeline_ids' = timeline_ids
               /\ published' = published
               /\ sent' = sent]_vars

\* An insert was handled, a later insert named a missing package while a
\* package was stored, its notification was taken and left nothing
C31_Witness ==
    /\ watching
    /\ feed = <<>>
    /\ listener.pc = "recv"
    /\ Len(handled) = 1
    /\ Len(published) = 1
    /\ \E row \in versions : Orphan(row) /\ row.id > handled[1].version.id

\* C34: every published event that has an owner is a stored TimelineEvent,
\* id included, and a turn of the listener's loop whose insert failed
\* publishes nothing.
C34_PublishedAfterStored ==
    /\ [](\A k \in 1..Len(published) : published[k].user_id # None => published[k] \in timeline)
    /\ [][(/\ listener.pc = "users"
            /\ listener.todo # <<>>
            /\ listener' # listener
            /\ timeline' = timeline) =>
               (published' = published /\ sent' = sent)]_vars

\* A notification was handled for two subscribers: the insert for the first
\* failed and nothing of that user is stored or published, the event of the
\* second is stored and published
C34_Witness ==
    \E i \in 1..Len(handled) :
        /\ handled[i].users = <<1, 2>>
        /\ handled[i].failed = {1}
        /\ \A e \in timeline : e.user_id # Some(1)
        /\ \A k \in 1..Len(published) : published[k].user_id # Some(1)
        /\ \E e \in timeline : e.user_id = Some(2) /\ \E k \in 1..Len(published) : published[k] = e

\* C37: the receive of a notification never stops the listener, whatever its
\* handling returns, and leaves the next notification at the head of the
\* feed; the listener stops only at its receive, on a disconnected feed.
C37_HandlingErrorGoesOn ==
    /\ [][(/\ listener.pc = "recv"
            /\ feed # <<>>
            /\ Head(feed).kind # "Disconnected"
            /\ feed' = Tail(feed)) => listener'.pc \in {"recv", "users"}]_vars
    /\ [][(listener.pc # "stopped" /\ listener'.pc = "stopped") =>
             (listener.pc = "recv" /\ feed # <<>> /\ Head(feed).kind = "Disconnected")]_vars

\* Every insert was notified; the handling of the first version's
\* notification returned an error and left nothing, the second version's
\* was handled to the end
C37_Witness ==
    /\ watching
    /\ feed = <<>>
    /\ listener.pc = "recv"
    /\ Cardinality(versions) = 2
    /\ Len(handled) = 1
    /\ handled[1].version.id = 2
    /\ \E row \in versions :
          /\ row.id = 1
          /\ PublishedFor(None, row.package_id, row.version) = {}

--------------------------------------------------------------------------
(* Claims about the NotificationProcessor *)

\* The events of a sequence of events
Pending(events) == {events[k].id : k \in 1..Len(events)}

\* C29: an event's notified_at is set only after an email for it was sent
\* successfully; a failed send leaves it unset, the event stays among the
\* pending ones until a later send succeeds, and every run that reads the
\* pending events takes every stored personal event that is not notified.
C29_NotifiedOnlyAfterSend ==
    /\ [](\A id \in notified : \E k \in 1..Len(outbox) : outbox[k].event = id /\ outbox[k].sent)
    /\ [](\A k \in 1..Len(outbox) :
            (\A j \in k..Len(outbox) : outbox[j].event = outbox[k].event => ~outbox[j].sent) =>
                /\ outbox[k].event \notin notified
                /\ outbox[k].event \in Pending(get_pending_notifications))
    /\ [][(Len(outbox') = Len(outbox) + 1 /\ ~outbox'[Len(outbox')].sent) =>
             /\ notified' = notified
             /\ outbox'[Len(outbox')].event \notin notified']_vars
    /\ [][(mailer.pc = "idle" /\ mailer'.pc = "loop") =>
             \A e \in timeline :
                 (e.user_id # None /\ e.id \notin notified) => e.id \in Pending(mailer'.pending)]_vars

\* The first send for an event failed, a later run sent it, and it is
\* notified
C29_Witness ==
    \E i, j \in 1..Len(outbox) :
        /\ i < j
        /\ outbox[i].event = outbox[j].event
        /\ ~outbox[i].sent
        /\ outbox[j].sent
        /\ outbox[j].event \in notified
        /\ runs = 2

--------------------------------------------------------------------------
(* Claims about the broadcaster and the connections *)

\* C6: every event a connection forwarded either has no owning user and was
\* forwarded while the connection was unauthenticated, or is owned by the
\* user the connection was authenticated as when it forwarded it
C6_ForwardOnlyMatching ==
    \A c \in Conns : \A i \in 1..Len(forwarded[c]) :
        LET as == forwarded[c][i].user_id
            owner == sent[forwarded[c][i].pos].user_id
        IN  \/ as = None /\ owner = None
            \/ as # None /\ owner = as

\* One connection forwarded a personal event after authenticating; another,
\* still unauthenticated, received a personal event and forwarded nothing
C6_Witness ==
    \E c1, c2 \in Conns :
        /\ \E i \in 1..Len(forwarded[c1]) : forwarded[c1][i].user_id # None
        /\ conns[c2].user_id = None
        /\ forwarded[c2] = <<>>
        /\ \E pos \in delivered[c2] : sent[pos].user_id # None

\* C7: broadcast is enabled in every state, and a live receiver misses no
\* event accepted since it subscribed other than those its own backlog
\* overwrote: each such event was returned to it or is still retained for it
C7_BroadcastNeverWaits ==
    /\ Len(published) < MaxBroadcasts =>
          \A event \in WsEvents : ENABLED (Broadcast(event) /\ UNCHANGED notWs)
    /\ \A c \in Receivers : \A pos \in (conns[c].start + 1)..tail :
          pos \notin lost[c] =>
              \/ pos \in delivered[c]
              \/ pos > conns[c].next /\ pos > tail - Capacity

\* A broadcast into a full buffer made one receiver lose an event while
\* another live receiver got every event
C7_Witness ==
    \E c1, c2 \in Conns :
        /\ lost[c1] # {}
        /\ c2 \in Receivers
        /\ conns[c2].start = 0
        /\ delivered[c2] = 1..tail

\* C8 as stated: every event accepted after a connection subscribed and
\* already passed by its receiver was returned to it, and no event accepted
\* before it subscribed was
C8_SubscribedBeforeReceives ==
    \A c \in Conns : \A pos \in 1..tail :
        /\ (conns[c].pc # "new" /\ conns[c].start < pos /\ pos <= conns[c].next) =>
              pos \in delivered[c]
        /\ pos \in delivered[c] => pos > conns[c].start

\* C8: every event accepted after a connection subscribed and already passed
\* by its receiver was returned to it unless the channel overwrote it before
\* the receiver read it, and no event accepted before it subscribed was
C8_ReceivesUnlessOverwritten ==
    \A c \in Conns : \A pos \in 1..tail :
        /\ (conns[c].pc # "new" /\ conns[c].start < pos /\ pos <= conns[c].next) =>
              (pos \in delivered[c] \/ pos \in lost[c])
        /\ pos \in delivered[c] => pos > conns[c].start

\* One connection lost an event to an overflow and received a later one; one
\* that subscribed after an event was accepted received a later event
C8_Witness ==
    \E c1, c2 \in Conns :
        /\ lost[c1] # {}
        /\ delivered[c1] # {}
        /\ conns[c2].start > 0
        /\ delivered[c2] # {}

\* C25: a connection starts unauthenticated; its user id changes only to the
\* subject of an Auth message whose token verify_jwt accepted, and never back
\* to none; it is closed only by a failed send of its send task or by the end
\* of its receive stream (a keepalive Ping that was sent leaves the connection
\* as it was, with nothing waiting for an answer); a closed connection does
\* not change and forwards nothing
C25_ConnectionStates ==
    [][\A c \in Conns :
          /\ conns[c].pc = "new" =>
                /\ conns[c].user_id = None
                /\ conns'[c].pc \in {"new", "open"}
                /\ conns'[c].user_id = None
          /\ conns'[c].user_id # conns[c].user_id =>
                /\ conns[c].pc = "open"
                /\ conns[c].auth_msg.ok
                /\ conns'[c].user_id = parse_u64(conns[c].auth_msg.sub)
                /\ conns'[c].user_id # None
          /\ (conns[c].pc = "open" /\ conns'[c].pc # "open") =>
                /\ conns'[c].pc = "closed"
                /\ \/ conns'[c].closed_by = "recv_task" /\ WsClose(c)
                   \/ /\ conns'[c].closed_by = "send_task"
                      /\ WsRecvEvent(c) \/ WsPong(c) \/ WsKeepalive(c)
          /\ (WsKeepalive(c) /\ conns'[c].pc = "open") => conns' = conns
          /\ conns[c].pc = "closed" =>
                /\ conns'[c] = conns[c]
                /\ forwarded'[c] = forwarded[c]
                /\ delivered'[c] = delivered[c]]_vars

\* A connection that authenticated and forwarded a personal event was closed
\* by the end of its receive stream; another, closed by a failed send, never
\* authenticated
C25_Witness ==
    \E c1, c2 \in Conns :
        /\ conns[c1].pc = "closed"
        /\ conns[c1].closed_by = "recv_task"
        /\ conns[c1].user_id # None
        /\ \E i \in 1..Len(forwarded[c1]) : forwarded[c1][i].user_id # None
        /\ conns[c2].pc = "closed"
        /\ conns[c2].closed_by = "send_task"
        /\ conns[c2].user_id = None

\* The PackageVersion rows an event may be about; ids are given in the order
\* of the commits
RowsOf(event) ==
    {r \in versions : r.package_id = event.package_id /\ r.version = event.version}

C33_IdentityFixed ==
    \A c \in Conns : \A i, j \in 1..Len(forwarded[c]) :
        (i < j /\ forwarded[c][i].user_id # None) =>
            /\ forwarded[c][j].user_id = forwarded[c][i].user_id
            /\ sent[forwarded[c][j].pos].user_id = sent[forwarded[c][i].pos].user_id

\* C39: no step closes a lagging connection but the end of its receive
\* stream or a failed send of a Pong or a keepalive Ping; the receive that
\* meets the overflow leaves it open with its user id, moves it to the
\* oldest retained event and skips only overwritten events, forwarding and
\* returning none; and a connection that lost events and lags no more
\* forwards the matching event of its next receive, or is closed by the
\* failed send of it
C39_LaggedStaysOpen ==
    [][\A c \in Conns :
          /\ (conns[c].pc = "open" /\ Lagging(c) /\ conns'[c].pc # "open") =>
                WsClose(c) \/ WsPong(c) \/ WsKeepalive(c)
          /\ (conns[c].pc = "open" /\ Lagging(c) /\ conns'[c].next # conns[c].next) =>
                /\ conns'[c].pc = "open"
                /\ conns'[c].user_id = conns[c].user_id
                /\ conns'[c].next = tail - Capacity
                /\ (conns[c].next + 1)..conns'[c].next \subseteq lost[c]
                /\ delivered'[c] = delivered[c]
                /\ forwarded'[c] = forwarded[c]
          /\ (/\ conns[c].pc = "open"
              /\ lost[c] # {}
              /\ ~Lagging(c)
              /\ conns'[c].next = conns[c].next + 1
              /\ should_send(conns[c].user_id, sent[conns[c].next + 1].user_id)) =>
                \/ forwarded'[c] = Append(forwarded[c], [pos |-> conns[c].next + 1,
                                                         user_id |-> conns[c].user_id])
                \/ conns'[c].pc = "closed" /\ conns'[c].closed_by = "send_task"]_vars

\* An open connection lost an event to an overflow and forwarded an event
\* that was published after the overflow
C39_Witness ==
    \E c \in Conns :
        /\ conns[c].pc = "open"
        /\ \E l \in lost[c], i \in 1..Len(forwarded[c]) : forwarded[c][i].pos > l + Capacity

--------------------------------------------------------------------------
(* Claims about the AdaptiveRateLimitedClient *)

\* The result of report_result calls made one after the other
RECURSIVE ApplyAll(_, _)
ApplyAll(rate, codes) ==
    IF codes = <<>> THEN rate ELSE ApplyAll(new_rate(Head(codes), rate), Tail(codes))

\* The orders in which a sequence of status codes can be applied
Orders(codes) ==
    LET n == Len(codes)
        perms == {f \in [1..n -> 1..n] : \A a, b \in 1..n : a # b => f[a] # f[b]}
    IN  {[i \in 1..n |-> codes[f[i]]] : f \in perms}

\* C35: current_rate is what the status codes of the report_result calls
\* that stored a rate yield when they are applied one after the other from
\* initial_rate, in some order; it is the order in which they stored.
C35_NoLostUpdate ==
    /\ \E order \in Orders(applied) : ApplyAll(config.initial_rate, order) = current_rate
    /\ ApplyAll(config.initial_rate, applied) = current_rate

\* Two calls are in flight at once, one inside report_result and one whose
\* response is due, after two reports that lowered the rate
C35_Witness ==
    \E k1, k2 \in Callers :
        /\ callers[k1] = "locked"
        /\ callers[k2] = "send"
        /\ applied = <<429, 429>>
        /\ current_rate = 2

\* Some caller is inside the permit wait or inside report_result
Inside == {k \in Callers : callers[k] \in {"wait", "locked", "report"}}

\* C36: whenever callers are inside the permit wait or inside report_result,
\* one of them can take a step; a get inside the permit wait goes on to send
\* its request, and a report_result that holds the rate or waits for the
\* limiter's write lock returns.
C36_NoDeadlock ==
    /\ [](Inside # {} => \E k \in Inside : ENABLED LockStep(k))
    /\ \A k \in Callers :
          /\ (callers[k] = "wait") ~> (callers[k] = "send")
          /\ (callers[k] = "locked") ~> (callers[k] \in {"idle", "report"})
          /\ (callers[k] = "report") ~> (callers[k] = "idle")

\* A report_result waits for the limiter's write lock while another caller
\* holds the read lock inside the permit wait
C36_Witness ==
    \E k1, k2 \in Callers :
        /\ callers[k1] = "report"
        /\ callers[k2] = "wait"
        /\ quota # current_rate

\* C9: current_rate stays within [min_rate, max_rate]
C9_RateWithinBounds ==
    config.min_rate <= current_rate /\ current_rate <= config.max_rate

\* floor(k * n / 10), computed without forming k * n
FloorTenths(n, k) == (n \div 10) * k + ((n % 10) * k) \div 10

\* The smallest u32 whose product by 11 exceeds u32::MAX
WrapFrom11 == 390451573

\* C10 as stated: the last report_result left max(old / 2, min) on 429,
\* max(old * 0.9, min) on 5xx and min(old * 1.1, max) on 2xx, the factors 0.9
\* and 1.1 taken exactly, and left the rate unchanged on any other status
C10_ExactFactors ==
    LET r == lastReport IN
    r # NoReport =>
        IF r.status = 429 THEN r.new = Max(r.old \div 2, config.min_rate)
        ELSE IF r.status \in 500..599
             THEN IF FloorTenths(r.old, 9) >= config.min_rate
                  THEN r.old % 10 = 0 /\ r.new = (r.old \div 10) * 9
                  ELSE r.new = config.min_rate
        ELSE IF r.status \in 200..299
             THEN IF FloorTenths(r.old, 11) + (IF r.old % 10 = 0 THEN 0 ELSE 1) <= config.max_rate
                  THEN r.old % 10 = 0 /\ r.new = (r.old \div 10) * 11
                  ELSE r.new = config.max_rate
        ELSE r.new = r.old

\* C10: the last report_result left max(floor(old / 2), min) on 429,
\* max(floor(old * 9 / 10), min) on 5xx and min(floor(old * 11 / 10), max) on
\* 2xx, and left the rate unchanged on any other status; where the product
\* old * 11 exceeds u32::MAX, a build with overflow checks panics and leaves
\* the rate unchanged and a build without them divides the product reduced
\* modulo 2^32
C10_FloorFactors ==
    LET r == lastReport IN
    r # NoReport =>
        IF r.status = 429 THEN r.new = Max(r.old \div 2, config.min_rate) /\ current_rate = r.new
        ELSE IF r.status \in 500..599
             THEN r.new = Max(FloorTenths(r.old, 9), config.min_rate) /\ current_rate = r.new
        ELSE IF r.status \in 200..299
             THEN IF r.old < WrapFrom11
                  THEN r.new = Min(FloorTenths(r.old, 11), config.max_rate) /\ current_rate = r.new
                  ELSE IF overflow_checks
                       THEN r.panicked /\ r.new = r.old /\ current_rate = r.old
                       ELSE /\ r.new = Min((11 * (r.old - WrapFrom11) + 7) \div 10, config.max_rate)
                            /\ current_rate = r.new
        ELSE r.new = r.old /\ current_rate = r.old

\* A 5xx report at rate 9 left 8: the floor decided the result
C10_Witness ==
    /\ lastReport.status = 500
    /\ lastReport.old = 9
    /\ lastReport.new = 8
    /\ current_rate = 8

\* C11: a 2xx response that finds current_rate below max_rate leaves it
\* strictly higher
C11_SuccessIncreases ==
    LET r == lastReport IN
    (r.status \in 200..299 /\ r.old < config.max_rate /\ ~r.panicked) => r.new > r.old

\* 2^n
RECURSIVE Pow2(_)
Pow2(n) == IF n = 0 THEN 1 ELSE 2 * Pow2(n - 1)

\* C12 as stated: after three consecutive 429 responses that began at rate R,
\* current_rate is at least min_rate and at most R / 8 rounded up; after a run
\* of 2xx responses current_rate is at most max_rate
C12_ThreeHalvings ==
    LET r == lastReport IN
    /\ (r.status = 429 /\ r.streak = 3) =>
           /\ current_rate >= config.min_rate
           /\ current_rate <= (r.start \div 8) + (IF r.start % 8 = 0 THEN 0 ELSE 1)
    /\ r.status \in 200..299 => current_rate <= config.max_rate

\* C12: after n consecutive 429 responses that began at rate R, current_rate
\* is max(floor(R / 2^n), min_rate), which is above R / 8 for n = 3 where
\* min_rate is; after a run of 2xx responses current_rate is at most max_rate
C12_HalvingsToFloor ==
    LET r == lastReport IN
    /\ (r.status = 429 /\ r.streak < MaxStreak) =>
           /\ current_rate = Max(r.start \div Pow2(r.streak), config.min_rate)
           /\ current_rate >= config.min_rate
    /\ r.status \in 200..299 => current_rate <= config.max_rate

\* Three 429 responses in a row took the libraries.io client from 30 to its
\* floor of 6
C12_Witness ==
    /\ config = LibrariesIoConfig
    /\ lastReport.status = 429
    /\ lastReport.streak = 3
    /\ lastReport.start = 30
    /\ current_rate = 6

\* A run of 2xx responses as long as the model follows took the libraries.io
\* client from 30 to its ceiling of 60
C12_WitnessSuccesses ==
    /\ config = LibrariesIoConfig
    /\ lastReport.status \in 200..299
    /\ lastReport.streak = MaxStreak
    /\ lastReport.start = 30
    /\ current_rate = 60

\* C13: a get whose send fails returns the error and leaves current_rate and
\* the limiter as they were
C13_SendErrorLeavesRate ==
    [][\A k \in Callers :
          (callers[k] = "send" /\ callers'[k] = "failed") =>
              (current_rate' = current_rate /\ quota' = quota)]_vars

\* A get returned a send error after the rate had been moved from its initial
\* value
C13_Witness ==
    \E k \in Callers :
        /\ callers[k] = "failed"
        /\ current_rate # config.initial_rate
        /\ quota = current_rate

\* C14: while no report_result call is in progress, the quota of the limiter
\* is current_rate
C14_QuotaFollowsRate ==
    (\A k \in Callers : callers[k] # "report") => quota = current_rate

--------------------------------------------------------------------------
(* Claims about the IdGenerator *)

\* C40: no two calls of timeline_ids.next() since startup returned the same
\* id, every id returned is greater than the id of every row stored at
\* startup, and the id a caller of insert_timeline_event holds is the primary
\* key of no stored row
C40_IdsNeverReused ==
    /\ \A i, j \in 1..Len(issued) : i # j => issued[i] # issued[j]
    /\ \A i \in 1..Len(issued) : \A id \in at_start : issued[i] > id
    /\ \A k \in Inserters : id_calls[k] # 0 => \A e \in timeline : e.id # id_calls[k]

====
